---- MODULE Spec2Model ----
(***************************************************************************)
(* Retrieval / ranking pipeline of the memory backend:                     *)
(*   services/api/src/services/retrieval_service.py  (fan-out, strategies) *)
(*   services/api/src/core/vector_search.py          (Qdrant search)       *)
(*   services/api/src/core/keyword_search.py         (BM25 search)         *)
(*   services/api/src/core/graph_search.py           (entity search)       *)
(*   services/api/src/core/hybrid_ranker.py          (dedup, score, sort)  *)
(*                                                                         *)
(* Scores are fixed-point integers in thousandths (1000 = 1.0); weights    *)
(* are thousandths too; the weighted sum is divided by 1000, so a combined *)
(* score is in thousandths as well.                                        *)
(***************************************************************************)
EXTENDS Integers, Sequences, FiniteSets, TLC

\* ------------------------------------------------------------------ bounds
\* largest limit_per_strategy a caller passes
MaxLimit == 2

\* --------------------------------------------------------------- utilities
Min(a, b) == IF a < b THEN a ELSE b
Max(a, b) == IF a > b THEN a ELSE b

\* s[:n]
Take(s, n) == SubSeq(s, 1, Min(n, Len(s)))

\* a sort that puts an element before the earlier elements of equal key
RECURSIVE InsertIdxBeforeEqual(_, _, _)
InsertIdxBeforeEqual(order, i, key) ==
    IF order = <<>> THEN <<i>>
    ELSE IF key[Head(order)] > key[i]
         THEN <<Head(order)>> \o InsertIdxBeforeEqual(Tail(order), i, key)
         ELSE <<i>> \o order

\* list.sort(key=..., reverse=True): index i goes after every index already
\* placed whose key is >= key[i], which is what keeps the sort stable
RECURSIVE InsertIdx(_, _, _)
InsertIdx(order, i, key) ==
    IF order = <<>> THEN <<i>>
    ELSE IF key[Head(order)] >= key[i]
         THEN <<Head(order)>> \o InsertIdx(Tail(order), i, key)
         ELSE <<i>> \o order

RECURSIVE SortIdx(_, _)
SortIdx(n, key) == IF n = 0 THEN <<>> ELSE InsertIdx(SortIdx(n - 1, key), n, key)

StableSortDesc(s, key) ==
    LET o == SortIdx(Len(s), key) IN [p \in 1..Len(s) |-> s[o[p]]]

Range(s) == {s[i] : i \in 1..Len(s)}

\* ------------------------------------------------------- the backing stores
\* Two tenants with overlapping content: every row of A has a twin owned by B.
Owners == {"A", "B"}

\* value of an owner filter that a query does not carry
NoFilter == "*"

\* value of a type filter that a query does not carry
AnyType == {"*"}

\* rows of the "memories" table, in table order. tokens stands for the
\* tokenized content+keywords, sim for the cosine similarity (thousandths) of
\* the row's vector to the query vector, created for the creation day.
Memories ==
    << [id |-> "m1", user_id |-> "A", type |-> "profile",  tokens |-> {"dog"},
        confidence |-> 900, created |-> 1, related_entities |-> {}, sim |-> 700],
       [id |-> "m2", user_id |-> "B", type |-> "profile",  tokens |-> {"dog"},
        confidence |-> 900, created |-> 1, related_entities |-> {}, sim |-> 900],
       [id |-> "m3", user_id |-> "A", type |-> "episodic", tokens |-> {"walk"},
        confidence |-> 500, created |-> 3, related_entities |-> {"e1"}, sim |-> 200],
       [id |-> "m4", user_id |-> "B", type |-> "episodic", tokens |-> {"dog", "walk"},
        confidence |-> 500, created |-> 4, related_entities |-> {"e1", "e2"}, sim |-> 800],
       [id |-> "m5", user_id |-> "A", type |-> "semantic", tokens |-> {"dog", "walk"},
        confidence |-> 700, created |-> 2, related_entities |-> {"e1"}, sim |-> 600],
       [id |-> "m6", user_id |-> "B", type |-> "semantic", tokens |-> {"cat"},
        confidence |-> 700, created |-> 2, related_entities |-> {"e2"}, sim |-> 100] >>

\* rows of the "entities" table
Entities ==
    << [id |-> "e1", user_id |-> "A", name |-> "rex"],
       [id |-> "e2", user_id |-> "B", name |-> "rex"] >>

OwnerOf(memory_id) ==
    (CHOOSE r \in Range(Memories) : r.id = memory_id).user_id

\* class MemoryType
MemoryType == <<"profile", "semantic", "episodic", "procedural">>

\* A Supabase query on "memories": select("*") with the .eq/.in_/.order/.limit
\* calls the strategy chained; the store applies them
ExecuteMemories(q) ==
    LET match(r) == /\ (q.eq_user_id = NoFilter \/ r.user_id = q.eq_user_id)
                    /\ (q.in_type = AnyType \/ r.type \in q.in_type)
        rows    == SelectSeq(Memories, match)
        ordered == IF q.order = "confidence"
                     THEN StableSortDesc(rows, [i \in 1..Len(rows) |-> rows[i].confidence])
                   ELSE IF q.order = "created_at"
                     THEN StableSortDesc(rows, [i \in 1..Len(rows) |-> rows[i].created])
                   ELSE rows
    IN  Take(ordered, q.limit)

\* A Supabase query on "entities": .eq("user_id", ..).ilike("name", ..).limit(5)
ExecuteEntities(q) ==
    LET match(r) == /\ (q.eq_user_id = NoFilter \/ r.user_id = q.eq_user_id)
                    /\ r.name = q.ilike
    IN  Take(SelectSeq(Entities, match), q.limit)

\* Qdrant query_points: the must-conditions pre-filter the points, the
\* survivors at or above score_threshold come back best first
ExecuteQdrant(q) ==
    LET match(r) == /\ (q.must_user_id = NoFilter \/ r.user_id = q.must_user_id)
                    /\ (q.must_type = AnyType \/ r.type \in q.must_type)
                    /\ r.sim >= q.score_threshold
        rows == SelectSeq(Memories, match)
    IN  Take(StableSortDesc(rows, [i \in 1..Len(rows) |-> rows[i].sim]), q.limit)

\* ------------------------------------------------- the retrieval strategies
\* the five coroutines handed to asyncio.gather, in argument order
StrategyOrder == <<"vector", "keyword", "entity", "profile", "recent">>
Strategies == Range(StrategyOrder)

\* the day datetime.utcnow() falls on
Today == 10

\* what a strategy call amounts to when its backend answers: the store
\* queries it issued and the list it returns
NoCall == [queries |-> {}, results |-> <<>>]

\* VectorSearch.search: the filter handed to query_points
VectorQuery(uid, memory_types, limit) ==
    [store |-> "qdrant", must_user_id |-> uid,
     must_type |-> IF memory_types # <<>> THEN Range(memory_types) ELSE AnyType,
     limit |-> limit, score_threshold |-> 0]

vector_retrieval(uid, memory_types, limit) ==
    LET q    == VectorQuery(uid, memory_types, limit)
        rows == ExecuteQdrant(q)
    IN  [queries |-> {q},
         results |-> [i \in 1..Len(rows) |->
                        [memory_id |-> rows[i].id, score |-> rows[i].sim,
                         match_type |-> "vector"]]]

\* _keyword_retrieval: the query that loads the documents for BM25
KeywordQuery(uid, memory_types) ==
    [store |-> "memories", eq_user_id |-> uid,
     in_type |-> IF memory_types # <<>> THEN Range(memory_types) ELSE AnyType,
     order |-> "none", limit |-> 1000]

\* KeywordSearch.search: documents sharing a token with the query score above
\* zero (the BM25 score stands as 1.0 per shared token), best first, cut at limit
KeywordSearch(keywords, documents, limit) ==
    LET bm25(d) == 1000 * Cardinality(d.tokens \cap Range(keywords))
        hits    == SelectSeq(documents, LAMBDA d : bm25(d) > 0)
        res     == [i \in 1..Len(hits) |->
                      [memory_id |-> hits[i].id, score |-> bm25(hits[i]),
                       match_type |-> "keyword"]]
    IN  Take(StableSortDesc(res, [i \in 1..Len(res) |-> res[i].score]), limit)

keyword_retrieval(uid, keywords, memory_types, limit) ==
    IF keywords = <<>> THEN NoCall
    ELSE LET q    == KeywordQuery(uid, memory_types)
             data == ExecuteMemories(q)
         IN  [queries |-> {q},
              results |-> IF data = <<>> THEN <<>>
                          ELSE KeywordSearch(keywords, data, limit)]

\* GraphSearch._find_entities_by_name: one query per mentioned name
EntityNameQuery(uid, name) ==
    [store |-> "entities", eq_user_id |-> uid, ilike |-> name, limit |-> 5]

\* the query on "memories" without the .eq("user_id", user_id) call
EntityMemoriesQueryAnyOwner(uid, limit) ==
    [store |-> "memories", eq_user_id |-> NoFilter, in_type |-> AnyType,
     order |-> "none", limit |-> limit * 2]

\* GraphSearch._get_memories_for_entities: the query on "memories"
EntityMemoriesQuery(uid, limit) ==
    [store |-> "memories", eq_user_id |-> uid, in_type |-> AnyType,
     order |-> "none", limit |-> limit * 2]

RECURSIVE FindEntities(_, _)
FindEntities(uid, names) ==
    IF names = <<>> THEN <<>>
    ELSE ExecuteEntities(EntityNameQuery(uid, Head(names)))
           \o FindEntities(uid, Tail(names))

\* _entity_retrieval -> GraphSearch.search_by_entities
entity_retrieval(uid, entity_names, limit) ==
    IF entity_names = <<>> THEN NoCall
    ELSE LET nameq      == {EntityNameQuery(uid, n) : n \in Range(entity_names)}
             entity_ids == {e.id : e \in Range(FindEntities(uid, entity_names))}
             q          == EntityMemoriesQuery(uid, limit)
             related    == SelectSeq(ExecuteMemories(q),
                              LAMBDA m : m.related_entities \cap entity_ids # {})
         IN  IF entity_ids = {} THEN [queries |-> nameq, results |-> <<>>]
             ELSE [queries |-> nameq \cup {q},
                   results |-> Take([i \in 1..Len(related) |->
                                       [memory_id |-> related[i].id, score |-> 800,
                                        match_type |-> "entity"]], limit)]

\* _profile_retrieval: the query
ProfileQuery(uid) ==
    [store |-> "memories", eq_user_id |-> uid, in_type |-> {"profile"},
     order |-> "confidence", limit |-> 20]

profile_retrieval(uid) ==
    LET q    == ProfileQuery(uid)
        rows == ExecuteMemories(q)
    IN  [queries |-> {q},
         results |-> [i \in 1..Len(rows) |->
                        [memory_id |-> rows[i].id, score |-> rows[i].confidence,
                         match_type |-> "profile"]]]

\* _recent_context_retrieval: the query
RecentQuery(uid, limit) ==
    [store |-> "memories", eq_user_id |-> uid, in_type |-> {"episodic"},
     order |-> "created_at", limit |-> limit]

\* max(0, 1 - age_days / 30), then times the confidence
recent_context_retrieval(uid, limit) ==
    LET q          == RecentQuery(uid, limit)
        rows       == ExecuteMemories(q)
        recency(m) == Max(0, 1000 - ((Today - m.created) * 1000) \div 30)
    IN  [queries |-> {q},
         results |-> [i \in 1..Len(rows) |->
                        [memory_id |-> rows[i].id,
                         score |-> (recency(rows[i]) * rows[i].confidence) \div 1000,
                         match_type |-> "recent"]]]

\* RetrievalService._determine_memory_types
determine_memory_types(a) ==
    IF a.memory_types_needed # <<>> THEN a.memory_types_needed
    ELSE IF a.intent = "recall" THEN MemoryType
    ELSE IF a.intent = "question" THEN <<"semantic", "profile">>
    ELSE IF a.intent = "command" THEN <<"procedural", "profile">>
    ELSE <<"episodic", "semantic">>

\* the coroutine gather runs for strategy s
StrategyCall(s, uid, a, memory_types, limit) ==
    CASE s = "vector"  -> vector_retrieval(uid, memory_types, limit)
      [] s = "keyword" -> keyword_retrieval(uid, a.keywords, memory_types, limit)
      [] s = "entity"  -> entity_retrieval(uid, a.entities_mentioned, limit)
      [] s = "profile" -> profile_retrieval(uid)
      [] s = "recent"  -> recent_context_retrieval(uid, limit)

\* ------------------------------------------------------------ HybridRanker
\* A result is a dict: a function from key names to values. A key the
\* strategy did not set is absent from the domain.
Get(d, k, default) == IF k \in DOMAIN d THEN d[k] ELSE default

\* dict.update
Update(d, u) ==
    [k \in DOMAIN d \cup DOMAIN u |-> IF k \in DOMAIN u THEN u[k] ELSE d[k]]

\* a missing or empty memory_id
NoId == ""

\* a missing, empty or unparseable created_at
NoDate == -1

\* an argument of HybridRanker.__init__ left at None
None == -1

\* settings.keyword_match_weight .. settings.frequency_weight (config.py)
DefaultWeights ==
    [keyword |-> 350, vector |-> 250, reliability |-> 200, recency |-> 150,
     frequency |-> 50]

\* HybridRanker.__init__, lines 48-52: "w or settings.w" takes the default for
\* None and for 0.0 alike
WeightOrDefault(w, default) == IF w = None \/ w = 0 THEN default ELSE w

HybridRankerInit(args) ==
    [k \in DOMAIN DefaultWeights |-> WeightOrDefault(args[k], DefaultWeights[k])]

\* math.tanh(x) for x >= 0 in thousandths, by the Pade approximant
\* x(27 + x^2) / (27 + 9 x^2), which reaches 1.0 at x = 3
TanhMilli(x) ==
    IF x >= 3000 THEN 1000
    ELSE (x * (27000 + (x * x) \div 1000)) \div (27000 + (9 * x * x) \div 1000)

Clamp01(x) == Min(1000, Max(0, x))

\* _normalize_keyword_score: tanh(score * 0.2), clamped
normalize_keyword_score(score) ==
    IF score <= 0 THEN 0 ELSE Clamp01(TanhMilli(score \div 5))

\* _normalize_vector_score: (score + 1) / 2, clamped
normalize_vector_score(score) == Clamp01((score + 1000) \div 2)

RECURSIVE Pow2(_)
Pow2(n) == IF n = 0 THEN 1 ELSE 2 * Pow2(n - 1)

\* _calculate_recency_score: exp(-ln 2 / 30 * age_days), i.e. one half per 30
\* days, linear between two halvings; 0.5 when there is no usable date.
\* created_at stands as the age in days at the time of the call.
calculate_recency_score(created_at) ==
    IF created_at = NoDate THEN 500
    ELSE LET h == created_at \div 30
             r == created_at % 30
         IN  Clamp01(((1000 \div Pow2(Min(h, 10))) * (1000 - (500 * r) \div 30)) \div 1000)

RECURSIVE FloorLog2(_)
FloorLog2(n) == IF n < 2 THEN 0 ELSE 1 + FloorLog2(n \div 2)

\* log2(n) in thousandths, linear between two powers of two
Log2Milli(n) ==
    LET k == FloorLog2(n) IN 1000 * k + (1000 * (n - Pow2(k))) \div Pow2(k)

\* _calculate_frequency_score: log(1 + count) / log(1 + 1000), clamped
calculate_frequency_score(access_count) ==
    IF access_count <= 0 THEN 0
    ELSE Clamp01((Log2Milli(1 + Min(access_count, 100000)) * 1000) \div Log2Milli(1001))

\* _calculate_scores: the five sub-scores and the weighted sum
calculate_scores(w, result) ==
    LET keyword_score     == normalize_keyword_score(Get(result, "keyword_score", 0))
        vector_score      == normalize_vector_score(Get(result, "vector_score", 0))
        reliability_score == Get(result, "reliability", 500)
        recency_score     == calculate_recency_score(Get(result, "created_at", NoDate))
        frequency_score   == calculate_frequency_score(Get(result, "access_count", 0))
    IN  [keyword_score |-> keyword_score,
         vector_score |-> vector_score,
         reliability_score |-> reliability_score,
         recency_score |-> recency_score,
         frequency_score |-> frequency_score,
         score |-> (w.keyword * keyword_score + w.vector * vector_score
                    + w.reliability * reliability_score
                    + w.recency * recency_score
                    + w.frequency * frequency_score) \div 1000]

\* A match_type string stands as the sequence of the names it joins with
\* commas. Python orders strings by their characters: the names differ in
\* their first letter and a comma sorts before every letter, so the order is
\* the lexicographic one on the sequences of names.
NameRank ==
    [entity |-> 1, hybrid |-> 2, keyword |-> 3, profile |-> 4, recent |-> 5,
     vector |-> 6]

RECURSIVE StrLess(_, _)
StrLess(a, b) ==
    IF a = <<>> THEN b # <<>>
    ELSE IF b = <<>> THEN FALSE
    ELSE IF Head(a) = Head(b) THEN StrLess(Tail(a), Tail(b))
    ELSE NameRank[Head(a)] < NameRank[Head(b)]

\* ",".join(sorted(types)) if len(types) > 1 else (types.pop() if types else "hybrid")
JoinSorted(types) ==
    IF types = {} THEN <<"hybrid">>
    ELSE IF Cardinality(types) = 1 THEN CHOOSE t \in types : TRUE
    ELSE LET lo == CHOOSE t \in types : \A u \in types \ {t} : StrLess(t, u)
             hi == CHOOSE t \in types : t # lo
         IN  lo \o hi

ScoreKeys ==
    {"keyword_score", "vector_score", "reliability_score", "recency_score",
     "frequency_score", "score"}

\* _merge_results: a copy of result1 with the larger value under each score
\* key and the match types of the two combined
merge_results(result1, result2) ==
    LET maxima == [k \in ScoreKeys |-> Max(Get(result1, k, 0), Get(result2, k, 0))]
        types  == {t \in {Get(result1, "match_type", <<>>),
                          Get(result2, "match_type", <<>>)} : t # <<>>}
    IN  Update(Update(result1, maxima), [match_type |-> JoinSorted(types)])

\* a lookup that never finds the memory_id
SeenAtNever(seen, memory_id) == 0

\* position of memory_id among the entries seen so far, 0 when not seen
SeenAt(seen, memory_id) ==
    IF \E p \in 1..Len(seen) : seen[p].rec.memory_id = memory_id
      THEN CHOOSE p \in 1..Len(seen) : seen[p].rec.memory_id = memory_id
      ELSE 0

\* the loop of _deduplicate from element i on. An entry of seen is the dict
\* kept for a memory_id, in first-occurrence order; src is the index of the
\* input dict it is, or 0 when it is a merged copy.
RECURSIVE DeduplicateFrom(_, _, _)
DeduplicateFrom(list, i, seen) ==
    IF i > Len(list) THEN seen
    ELSE LET result    == list[i]
             memory_id == Get(result, "memory_id", NoId)
             p         == SeenAt(seen, memory_id)
         IN  IF memory_id = NoId THEN DeduplicateFrom(list, i + 1, seen)
             ELSE IF p = 0
               THEN DeduplicateFrom(list, i + 1,
                        Append(seen, [src |-> i, rec |-> result]))
             ELSE IF Get(result, "score", 0) > Get(seen[p].rec, "score", 0)
               THEN DeduplicateFrom(list, i + 1,
                        [seen EXCEPT ![p] =
                           [src |-> 0, rec |-> merge_results(seen[p].rec, result)]])
             ELSE DeduplicateFrom(list, i + 1, seen)

deduplicate(list) == DeduplicateFrom(list, 1, <<>>)

\* rank(): deduplicate, update every kept dict with its scores, sort by score
\* descending. The entries keep src, the input dict that was updated in place.
rank(w, list) ==
    IF list = <<>> THEN <<>>
    ELSE LET kept   == deduplicate(list)
             scored == [p \in 1..Len(kept) |->
                          [src |-> kept[p].src,
                           rec |-> Update(kept[p].rec, calculate_scores(w, kept[p].rec))]]
         IN  StableSortDesc(scored, [p \in 1..Len(scored) |-> scored[p].rec.score])

\* ------------------------------------------ multi_strategy_retrieve: state
VARIABLES
    user_id,             \* the owner the request is for
    analysis,            \* the QueryAnalysis passed in
    limit_per_strategy,
    orch,                \* multi_strategy_retrieve: "idle", "gathering", "returned", "raised"
    memory_types,        \* the local computed at line 65
    status,              \* per strategy task: "none", "pending", "awaiting", "blocked",
                         \* "returned", "raised"
    results,             \* per strategy task: the list it returned
    issued,              \* every query sent to a store so far
    combined_results,    \* the list multi_strategy_retrieve returns
    embedding_cache      \* VectorSearch._embedding_cache, keys in insertion order

VARIABLES
    weights,             \* the five weights of the HybridRanker instance
    items,               \* the caller's list of result dicts (the dicts are shared
                         \* with every list that holds them)
    ranked,              \* the list the last rank() call returned
    alias,               \* per element of ranked: the index in items of the dict
                         \* it is, 0 for a dict that rank() created
    last_input,          \* the list the last rank() call was given, as it was then
    rank_calls           \* number of rank() calls so far

rank_vars == <<weights, items, ranked, alias, last_input, rank_calls>>

retrieval_vars ==
    <<user_id, analysis, limit_per_strategy, orch, memory_types, status,
      results, issued, combined_results, embedding_cache>>

\* ------------------------------------------------- ContextBuilder: state
VARIABLES
    builder_args,        \* the arguments ContextBuilder was constructed with
    adaptive,            \* TRUE for an AdaptiveContextBuilder instance
    memories,            \* build(): the ranked list passed in
    max_tokens_arg,      \* build(): the max_tokens override, None when left out
    entity_context_arg,  \* build(): the entity context text passed in
    context,             \* the MemoryContext the last build() returned
    prev_context,        \* the MemoryContext the build() before that returned
    build_calls,         \* number of build() calls so far
    uuid_count,          \* number of uuid4() values drawn so far
    clock                \* datetime.utcnow(), in ticks

build_vars ==
    <<builder_args, adaptive, memories, max_tokens_arg, entity_context_arg,
      context, prev_context, build_calls, uuid_count, clock>>

\* ------------------------------------------ ChatService, QueryAnalyzer,
\* ------------------------------------------ TokenCounter: state
VARIABLES
    chat,                \* ChatService._retrieve_memories: "idle", then what it
                         \* returned: "context" or "none"
    query,               \* QueryAnalyzer.analyze: the query, a list of tokens
    query_analysis,      \* the QueryAnalysis analyze() returned
    text,                \* TokenCounter.truncate_to_tokens: the text
    max_tokens,          \* ... its max_tokens
    add_ellipsis,        \* ... its add_ellipsis
    truncated_text       \* ... what it returned

chat_vars == <<chat>>

analyzer_vars == <<query, query_analysis>>

counter_vars == <<text, max_tokens, add_ellipsis, truncated_text>>

\* --------------------------- embedding cache under concurrent searches,
\* --------------------------- truncation loop, split_by_tokens, reranking,
\* --------------------------- analytics, entity graph: state
VARIABLES
    searches,            \* per VectorSearch.search task: where it is and its cache key
    cache_log,           \* history of the cache: when each key went in, what went out
    truncation,          \* ContextBuilder._truncate_to_tokens: its locals
    split,               \* TokenCounter.split_by_tokens: its locals
    rerank,              \* HybridRanker.rerank_with_context: arguments and result
    query_types,         \* the query types rank_for_query_type was called with
    collector,           \* the request's AnalyticsCollector: spans and span stack
    span_tasks,          \* per task inside track_span: where it is, its span
    emitter,             \* the AnalyticsEmitter: buffer, flush tasks, backend
    traversal            \* GraphSearch.get_entity_graph: graph, call stack, result

late_vars ==
    <<searches, cache_log, truncation, split, rerank, query_types, collector,
      span_tasks, emitter, traversal>>

\* the state of the services modelled first
core_vars == <<build_vars, chat_vars, analyzer_vars, counter_vars>>

\* the state outside retrieval and ranking
ext_vars == <<core_vars, late_vars>>

\* build() has not returned anything yet
NoContext == [returned |-> FALSE]

\* analyze() has not returned anything yet
NoAnalysis == [returned |-> FALSE]

\* a text is the list of the lengths of its words, in characters; the words
\* are joined by single spaces. The empty text stands for "" and for None.
NoText == <<>>

\* a string is the list of its characters
NoString == <<>>

\* no build() call is under way and none was made
BuildIdle ==
    /\ builder_args = [max_tokens |-> None, profile |-> None, semantic |-> None,
                       episodic |-> None, procedural |-> None, entity |-> None]
    /\ adaptive = FALSE
    /\ memories = <<>>
    /\ max_tokens_arg = None
    /\ entity_context_arg = NoText
    /\ context = NoContext
    /\ prev_context = NoContext
    /\ build_calls = 0
    /\ uuid_count = 0
    /\ clock = 0

ChatIdle == chat = "idle"

AnalyzerIdle ==
    /\ query = <<>>
    /\ query_analysis = NoAnalysis

\* truncate_to_tokens() has not returned anything yet
NoTruncation == [returned |-> FALSE]

CounterIdle ==
    /\ text = NoString
    /\ max_tokens = 0
    /\ add_ellipsis = FALSE
    /\ truncated_text = NoTruncation

\* nothing of the later services is under way
Idle == [pc |-> "idle"]

LateIdle ==
    /\ searches = Idle
    /\ cache_log = Idle
    /\ truncation = Idle
    /\ split = Idle
    /\ rerank = Idle
    /\ query_types = <<>>
    /\ collector = Idle
    /\ span_tasks = Idle
    /\ emitter = Idle
    /\ traversal = Idle

\* the text of the query; one text is enough, the stores hold the similarities
QueryText == "q"

\* the analyses a request arrives with
Analyses ==
    { [intent |-> "recall", memory_types_needed |-> <<>>,
       keywords |-> <<"dog">>, entities_mentioned |-> <<"rex">>],
      [intent |-> "question", memory_types_needed |-> <<"semantic", "profile">>,
       keywords |-> <<"dog", "walk">>, entities_mentioned |-> <<>>],
      [intent |-> "command", memory_types_needed |-> <<>>,
       keywords |-> <<>>, entities_mentioned |-> <<"rex">>],
      [intent |-> "conversation", memory_types_needed |-> <<>>,
       keywords |-> <<"walk">>, entities_mentioned |-> <<>>] }

\* VectorSearch._cache_max_size
cache_max_size == 100

\* a cache that evicts the entry stored last
CacheInsertEvictNewest(cache, key) ==
    LET stored == IF key \in Range(cache) THEN cache ELSE Append(cache, key)
    IN  IF Len(stored) > cache_max_size THEN SubSeq(stored, 1, Len(stored) - 1)
        ELSE stored

\* lines 68-72: store the embedding, then evict the oldest key when over size
CacheInsert(cache, key) ==
    LET stored == IF key \in Range(cache) THEN cache ELSE Append(cache, key)
    IN  IF Len(stored) > cache_max_size THEN Tail(stored) ELSE stored

\* gather left at its default, return_exceptions=False
return_exceptions_default == FALSE

\* asyncio.gather(..., return_exceptions=True), line 74
return_exceptions == TRUE

Settled(s) == status[s] \in {"returned", "raised"}

\* Supabase and Qdrant calls are synchronous: while one of them has not
\* returned, no other task of the event loop runs
LoopFree == \A s \in Strategies : status[s] # "blocked"

\* no ranker call is under way
RankIdle ==
    /\ weights = DefaultWeights
    /\ items = <<>>
    /\ ranked = <<>>
    /\ alias = <<>>
    /\ last_input = <<>>
    /\ rank_calls = 0

RetrievalInit ==
    /\ RankIdle
    /\ BuildIdle /\ ChatIdle /\ AnalyzerIdle /\ CounterIdle /\ LateIdle
    /\ user_id \in Owners
    /\ analysis \in Analyses
    /\ limit_per_strategy \in 1..MaxLimit
    /\ orch = "idle"
    /\ memory_types = <<>>
    /\ status = [s \in Strategies |-> "none"]
    /\ results = [s \in Strategies |-> <<>>]
    /\ issued = {}
    /\ combined_results = <<>>
    /\ embedding_cache \in {<<>>, << <<"A", QueryText>> >>}

\* lines 64-75: compute the memory types and hand the five coroutines to gather
Call ==
    /\ orch = "idle"
    /\ orch' = "gathering"
    /\ memory_types' = determine_memory_types(analysis)
    /\ status' = [s \in Strategies |-> "pending"]
    /\ UNCHANGED <<rank_vars, ext_vars, user_id, analysis, limit_per_strategy, results, issued,
                   combined_results, embedding_cache>>

\* How the backend call of a strategy ends:
\*   "ok"    the store answers and the strategy returns its list;
\*   "error" the call raises, the strategy's except clause returns [];
\*   "raise" an exception leaves the coroutine (raised inside the handler);
\*   "hang"  the store never answers.
Outcomes == {"ok", "error", "raise", "hang"}

Finish(s, outcome) ==
    LET call == StrategyCall(s, user_id, analysis, memory_types, limit_per_strategy)
    IN  /\ outcome # "ok" => call.queries # {}
        /\ status' = [status EXCEPT ![s] =
                        CASE outcome \in {"ok", "error"} -> "returned"
                          [] outcome = "raise" -> "raised"
                          [] outcome = "hang"  -> "blocked"]
        /\ results' = [results EXCEPT ![s] =
                         IF outcome = "ok" THEN call.results ELSE <<>>]
        /\ issued' = issued \cup call.queries

\* _vector_retrieval up to its first suspension: VectorSearch.search looks the
\* embedding up and, on a miss, awaits asyncio.to_thread(embed)
VectorStart ==
    /\ status["vector"] = "pending"
    /\ LoopFree
    /\ IF <<user_id, QueryText>> \in Range(embedding_cache)
         THEN \E outcome \in Outcomes : Finish("vector", outcome)
         ELSE /\ status' = [status EXCEPT !["vector"] = "awaiting"]
              /\ UNCHANGED <<results, issued>>
    /\ UNCHANGED <<rank_vars, ext_vars, user_id, analysis, limit_per_strategy, orch, memory_types,
                   combined_results, embedding_cache>>

\* the embedding thread is done: cache the embedding, then query Qdrant
EmbedDone ==
    /\ status["vector"] = "awaiting"
    /\ LoopFree
    /\ embedding_cache' = CacheInsert(embedding_cache, <<user_id, QueryText>>)
    /\ \E outcome \in Outcomes : Finish("vector", outcome)
    /\ UNCHANGED <<rank_vars, ext_vars, user_id, analysis, limit_per_strategy, orch, memory_types,
                   combined_results>>

\* embed raises: _vector_retrieval's except clause returns []
EmbedFail ==
    /\ status["vector"] = "awaiting"
    /\ LoopFree
    /\ status' = [status EXCEPT !["vector"] = "returned"]
    /\ results' = [results EXCEPT !["vector"] = <<>>]
    /\ UNCHANGED <<rank_vars, ext_vars, user_id, analysis, limit_per_strategy, orch, memory_types,
                   issued, combined_results, embedding_cache>>

\* the Qdrant client is built with timeout=30: a call that gets no answer
\* raises, and VectorSearch.search's except clause returns []
QdrantTimeout ==
    /\ status["vector"] = "blocked"
    /\ status' = [status EXCEPT !["vector"] = "returned"]
    /\ results' = [results EXCEPT !["vector"] = <<>>]
    /\ UNCHANGED <<rank_vars, ext_vars, user_id, analysis, limit_per_strategy, orch, memory_types,
                   issued, combined_results, embedding_cache>>

\* the four Supabase strategies have no suspension point: once scheduled,
\* the coroutine runs to its return
RunStrategy(s) ==
    /\ s # "vector"
    /\ status[s] = "pending"
    /\ LoopFree
    /\ \E outcome \in Outcomes : Finish(s, outcome)
    /\ UNCHANGED <<rank_vars, ext_vars, user_id, analysis, limit_per_strategy, orch, memory_types,
                   combined_results, embedding_cache>>

\* a loop that stops at the first exception instead of skipping it
RECURSIVE CombineUntilFailure(_, _, _)
CombineUntilFailure(order, st, res) ==
    IF order = <<>> THEN <<>>
    ELSE LET s == Head(order)
         IN  IF st[s] = "raised" THEN <<>>
             ELSE res[s] \o CombineUntilFailure(Tail(order), st, res)

\* lines 78-85: skip the exceptions, extend with the non-empty lists
RECURSIVE Combine(_, _, _)
Combine(order, st, res) ==
    IF order = <<>> THEN <<>>
    ELSE LET s == Head(order)
         IN  (IF st[s] = "raised" THEN <<>> ELSE res[s])
               \o Combine(Tail(order), st, res)

\* gather resumes multi_strategy_retrieve: with return_exceptions once every
\* task has settled, without it also as soon as one task has raised, and then
\* the exception propagates to the caller
GatherDone ==
    /\ orch = "gathering"
    /\ LoopFree
    /\ IF return_exceptions
         THEN \A s \in Strategies : Settled(s)
         ELSE \/ \A s \in Strategies : status[s] = "returned"
              \/ \E s \in Strategies : status[s] = "raised"
    /\ IF ~return_exceptions /\ \E s \in Strategies : status[s] = "raised"
         THEN /\ orch' = "raised"
              /\ UNCHANGED combined_results
         ELSE /\ orch' = "returned"
              /\ combined_results' = Combine(StrategyOrder, status, results)
    /\ UNCHANGED <<rank_vars, ext_vars, user_id, analysis, limit_per_strategy, memory_types, status,
                   results, issued, embedding_cache>>

RetrievalNext ==
    \/ Call
    \/ VectorStart
    \/ EmbedDone
    \/ EmbedFail
    \/ QdrantTimeout
    \/ \E s \in Strategies : RunStrategy(s)
    \/ GatherDone

vars == <<retrieval_vars, rank_vars, ext_vars>>

Spec == RetrievalInit /\ [][RetrievalNext]_vars

\* the event loop and the stores that answer keep taking steps
LiveSpec == Spec /\ WF_vars(RetrievalNext)

\* ------------------------------------------------------ HybridRanker: state
\* the memories the results refer to: reliability, age in days, access count
RankMemories ==
    [m1 |-> [reliability |-> 1000, created_at |-> 0, access_count |-> 5000],
     m2 |-> [reliability |-> 500, created_at |-> 30, access_count |-> 9],
     m3 |-> [reliability |-> 1000, created_at |-> 0, access_count |-> 5000]]

MemoryIds == DOMAIN RankMemories

\* the dicts the strategies build (vector_search.py 108-118, keyword_search.py
\* 111-122, graph_search.py 366-376, retrieval_service.py 323-333)
VectorResult(id, v) ==
    [memory_id |-> id, vector_score |-> v, score |-> v,
     reliability |-> RankMemories[id].reliability,
     created_at |-> RankMemories[id].created_at,
     match_type |-> <<"vector">>]

KeywordResult(id, k) ==
    [memory_id |-> id, keyword_score |-> k, score |-> k,
     reliability |-> RankMemories[id].reliability,
     created_at |-> RankMemories[id].created_at,
     access_count |-> RankMemories[id].access_count,
     match_type |-> <<"keyword">>]

EntityResult(id) ==
    [memory_id |-> id, score |-> 800,
     reliability |-> RankMemories[id].reliability,
     created_at |-> RankMemories[id].created_at,
     access_count |-> RankMemories[id].access_count,
     match_type |-> <<"entity">>]

RecentResult(id) ==
    LET recency == Max(0, 1000 - (RankMemories[id].created_at * 1000) \div 30)
    IN  [memory_id |-> id, recency_score |-> recency,
         score |-> (recency * RankMemories[id].reliability) \div 1000,
         reliability |-> RankMemories[id].reliability,
         created_at |-> RankMemories[id].created_at,
         access_count |-> RankMemories[id].access_count,
         match_type |-> <<"recent">>]

ResultDicts ==
    UNION { { VectorResult(id, 1000), KeywordResult(id, 200),
              KeywordResult(id, 15000), EntityResult(id), RecentResult(id) }
            : id \in MemoryIds }

\* longest list of results handed to rank()
MaxLen == 3

\* most rank() calls on one list
MaxCalls == 2

\* the arguments HybridRanker is constructed with
WeightArgs ==
    { [keyword |-> None, vector |-> None, reliability |-> None, recency |-> None,
       frequency |-> None],
      [keyword |-> 405, vector |-> 250, reliability |-> 200, recency |-> 150,
       frequency |-> 5],
      [keyword |-> 0, vector |-> 400, reliability |-> 300, recency |-> 200,
       frequency |-> 100] }

\* no retrieval is under way
RetrievalIdle ==
    /\ user_id = "A"
    /\ analysis = [intent |-> "conversation", memory_types_needed |-> <<>>,
                   keywords |-> <<>>, entities_mentioned |-> <<>>]
    /\ limit_per_strategy = 1
    /\ orch = "idle"
    /\ memory_types = <<>>
    /\ status = [s \in Strategies |-> "none"]
    /\ results = [s \in Strategies |-> <<>>]
    /\ issued = {}
    /\ combined_results = <<>>
    /\ embedding_cache = <<>>

RankInit ==
    /\ RetrievalIdle
    /\ BuildIdle /\ ChatIdle /\ AnalyzerIdle /\ CounterIdle /\ LateIdle
    /\ weights \in {HybridRankerInit(args) : args \in WeightArgs}
    /\ items \in UNION {[1..n -> ResultDicts] : n \in 0..MaxLen}
    /\ ranked = <<>>
    /\ alias = <<>>
    /\ last_input = <<>>
    /\ rank_calls = 0

\* the dicts of objs after a rank() call whose output is out; ref[p] is the
\* index in objs of the dict out[p] is, 0 when it is none of them
WriteBack(objs, out, ref) ==
    [i \in 1..Len(objs) |->
        IF \E p \in 1..Len(out) : ref[p] = i
          THEN out[CHOOSE p \in 1..Len(out) : ref[p] = i].rec
          ELSE objs[i]]

\* rank(results) on the caller's list
Rank ==
    /\ rank_calls < MaxCalls
    /\ \E out \in {rank(weights, items)} :
         LET ref == [p \in 1..Len(out) |-> out[p].src]
         IN  /\ ranked' = [p \in 1..Len(out) |-> out[p].rec]
             /\ alias' = ref
             /\ items' = WriteBack(items, out, ref)
    /\ last_input' = items
    /\ rank_calls' = rank_calls + 1
    /\ UNCHANGED <<weights, retrieval_vars, ext_vars>>

\* rank() on the list a previous call returned
RankRanked ==
    /\ rank_calls >= 1
    /\ rank_calls < MaxCalls
    /\ \E out \in {rank(weights, ranked)} :
         LET ref == [p \in 1..Len(out) |->
                       IF out[p].src = 0 THEN 0 ELSE alias[out[p].src]]
         IN  /\ ranked' = [p \in 1..Len(out) |-> out[p].rec]
             /\ alias' = ref
             /\ items' = WriteBack(items, out, ref)
    /\ last_input' = ranked
    /\ rank_calls' = rank_calls + 1
    /\ UNCHANGED <<weights, retrieval_vars, ext_vars>>

RankNext ==
    \/ Rank
    \/ RankRanked

RankSpec == RankInit /\ [][RankNext]_vars

\* ========================================================= ContextBuilder
\* settings.max_context_tokens .. settings.entity_memory_tokens (config.py)
DefaultBudgets ==
    [max_tokens |-> 5000, profile |-> 600, semantic |-> 1500,
     episodic |-> 1500, procedural |-> 400, entity |-> 300]

\* "arg or settings.x": None and 0 both give the setting
OrDefault(arg, default) == IF arg = None \/ arg = 0 THEN default ELSE arg

\* ContextBuilder.__init__: the budgets of the instance
ContextBuilderInit(args) ==
    [k \in DOMAIN DefaultBudgets |-> OrDefault(args[k], DefaultBudgets[k])]

\* the categories of _categorize_memories, in the order build() packs them
Categories == <<"profile", "semantic", "episodic", "procedural">>

RECURSIVE SumSeq(_)
SumSeq(s) == IF s = <<>> THEN 0 ELSE Head(s) + SumSeq(Tail(s))

\* len(text): the characters of the words and of the spaces between them
TextLen(t) == IF t = <<>> THEN 0 ELSE SumSeq(t) + Len(t) - 1

\* TokenCounter.count on a text, by the estimate of line 69: len(text) // 4
count(t) == IF t = <<>> THEN 0 ELSE TextLen(t) \div 4

\* text + "...": three more characters on the last word
AddEllipsis(t) ==
    IF t = <<>> THEN <<3>>
    ELSE [i \in 1..Len(t) |-> IF i = Len(t) THEN t[i] + 3 ELSE t[i]]

\* _categorize_memories: a dict without memory_type counts as semantic, a
\* dict with a type outside the four is left out
categorize_memories(list) ==
    [c \in Range(Categories) |->
        SelectSeq(list, LAMBDA m : Get(m, "memory_type", "semantic") = c)]

\* "if current_tokens + tokens > token_budget", taken without current_tokens
OverBudgetAlone(current_tokens, tokens, token_budget) == tokens > token_budget

\* lines 185, 226, 265, 306
OverBudget(current_tokens, tokens, token_budget) ==
    current_tokens + tokens > token_budget

\* the rejected item skipped and the loop going on ("continue")
ContinueAfterRejection(rest) == rest

\* lines 186, 227, 266, 307: "break", nothing after the rejected item is packed
AfterRejection(rest) == <<>>

\* the loop of _build_*_section from item i on: the indices of the items packed
RECURSIVE PackFrom(_, _, _, _)
PackFrom(list, i, current_tokens, token_budget) ==
    IF i > Len(list) THEN <<>>
    ELSE LET tokens == count(Get(list[i], "content", NoText))
         IN  IF OverBudget(current_tokens, tokens, token_budget)
               THEN AfterRejection(PackFrom(list, i + 1, current_tokens, token_budget))
               ELSE <<i>> \o PackFrom(list, i + 1, current_tokens + tokens,
                                      token_budget)

\* how many of the items before index i draw a uuid4(): those without a
\* conversation_id ("mem.get("conversation_id") or uuid4()")
DrawsBefore(list, i) ==
    Cardinality({j \in 1..(i - 1) : Get(list[j], "conversation_id", None) = None})

\* the model object built from result dict mem; created_at is filled by
\* default_factory=datetime.utcnow, conversation_id is episodic only
MemoryObject(category, mem, now, uuid) ==
    LET base == [id |-> Get(mem, "memory_id", None),
                 content |-> Get(mem, "content", NoText),
                 created_at |-> now]
    IN  IF category = "episodic"
          THEN Update(base,
                 [conversation_id |->
                    IF Get(mem, "conversation_id", None) # None
                      THEN <<"conversation", mem.conversation_id>>
                      ELSE <<"uuid4", uuid>>])
          ELSE base

\* _build_profile_section, _build_semantic_section, _build_episodic_section,
\* _build_procedural_section
build_section(category, list, token_budget, now, uuids) ==
    LET packed   == PackFrom(list, 1, 0, token_budget)
        prefix   == [p \in 1..Len(packed) |-> list[packed[p]]]
    IN  [p \in 1..Len(packed) |->
            MemoryObject(category, prefix[p], now,
                         uuids + DrawsBefore(prefix, p) + 1)]

\* uuid4() calls of one build(): one per packed episodic item without a
\* conversation_id
Draws(ctx) ==
    Cardinality({p \in 1..Len(ctx.episodic_memories) :
                    ctx.episodic_memories[p].conversation_id[1] = "uuid4"})

\* the binary search of ContextBuilder._truncate_to_tokens
RECURSIVE SearchCut(_, _, _, _)
SearchCut(words, low, high, limit) ==
    IF low >= high THEN low
    ELSE LET mid == (low + high + 1) \div 2
         IN  IF count(Take(words, mid)) <= limit
               THEN SearchCut(words, mid, high, limit)
               ELSE SearchCut(words, low, mid - 1, limit)

\* ContextBuilder._truncate_to_tokens
ContextBuilder_truncate_to_tokens(t, limit) ==
    IF t = NoText THEN NoText
    ELSE IF count(t) <= limit THEN t
    ELSE AddEllipsis(Take(t, SearchCut(t, 0, Len(t), limit)))

\* _calculate_total_tokens
calculate_total_tokens(sections, entity_context) ==
    SumSeq([c \in 1..Len(Categories) |->
              SumSeq([p \in 1..Len(sections[Categories[c]]) |->
                        count(sections[Categories[c]][p].content)])])
      + count(entity_context)

\* the MemoryContext build() returns
MemoryContext(sections, entity_context, total_tokens, truncated) ==
    [returned |-> TRUE,
     profile_memories |-> sections.profile,
     semantic_memories |-> sections.semantic,
     episodic_memories |-> sections.episodic,
     procedural_memories |-> sections.procedural,
     entity_context |-> entity_context,
     total_tokens |-> total_tokens,
     truncated |-> truncated]

\* the four sections packed under the budgets given
BuildSections(list, budgets, now, uuids) ==
    LET categorized == categorize_memories(list)
    IN  [c \in Range(Categories) |->
            build_section(c, categorized[c], budgets[c], now, uuids)]

\* ContextBuilder.build
build(budgets, list, max_tokens_given, entity_context, now, uuids) ==
    LET limit    == OrDefault(max_tokens_given, budgets.max_tokens)
        sections == BuildSections(list, budgets, now, uuids)
        entity   == IF entity_context # NoText
                      THEN ContextBuilder_truncate_to_tokens(entity_context,
                                                             budgets.entity)
                      ELSE entity_context
        total    == calculate_total_tokens(sections, entity)
    IN  MemoryContext(sections, entity, Min(total, limit), total > limit)

\* lines 466-469: the tokens each category asks for
CategorySizes(list) ==
    LET categorized == categorize_memories(list)
    IN  [c \in Range(Categories) |->
            SumSeq([i \in 1..Len(categorized[c]) |->
                      count(Get(categorized[c][i], "content", NoText))])]

\* the keys of base_budgets, lines 533-539
BudgetKeys == {"profile", "semantic", "episodic", "procedural", "entity"}

\* lines 545-550: the budget left over by the categories below their base
Unused(budgets, category_sizes) ==
    LET spare(cat) == IF cat \in DOMAIN category_sizes
                         /\ category_sizes[cat] < budgets[cat]
                        THEN budgets[cat] - category_sizes[cat] ELSE 0
    IN  spare("profile") + spare("semantic") + spare("episodic")
          + spare("procedural") + spare("entity")

\* lines 545-550: the categories that ask for more than their base
NeedMore(budgets, category_sizes) ==
    {cat \in BudgetKeys : cat \in DOMAIN category_sizes
                            /\ category_sizes[cat] > budgets[cat]}

\* every category in need given all of the unused budget
ExtraEachWhole(unused, need_more) == unused

\* line 554: the unused budget split evenly
ExtraEach(unused, need_more) == unused \div Cardinality(need_more)

\* AdaptiveContextBuilder._reallocate_budgets
reallocate_budgets(budgets, category_sizes, limit) ==
    LET unused    == Unused(budgets, category_sizes)
        need_more == NeedMore(budgets, category_sizes)
    IN  [cat \in BudgetKeys |->
            IF unused > 0 /\ need_more # {} /\ cat \in need_more
              THEN budgets[cat] + ExtraEach(unused, need_more)
              ELSE budgets[cat]]

\* AdaptiveContextBuilder.build
adaptive_build(budgets, list, max_tokens_given, entity_context, now, uuids) ==
    LET limit    == OrDefault(max_tokens_given, budgets.max_tokens)
        adapted  == reallocate_budgets(budgets, CategorySizes(list), limit)
        sections == BuildSections(list, adapted, now, uuids)
        entity   == IF entity_context # NoText
                      THEN ContextBuilder_truncate_to_tokens(entity_context,
                                                             adapted.entity)
                      ELSE entity_context
        total    == calculate_total_tokens(sections, entity)
    IN  MemoryContext(sections, entity, total, total > limit)

\* ------------------------------------------------- ContextBuilder: inputs
\* longest ranked list handed to build()
MaxItems == 3

\* most build() calls on one list
MaxBuilds == 2

\* the result dicts a ranked list is made of; content is a one-word text of
\* so many characters. A keyword-search dict has memory_type "" when the row
\* has no such column; a dict may lack memory_type altogether.
MemoryTemplates ==
    { [memory_type |-> "profile", content |-> <<1600>>],
      [memory_type |-> "semantic", content |-> <<4000>>],
      [content |-> <<1600>>],
      [memory_type |-> "episodic", content |-> <<4000>>],
      [memory_type |-> "episodic", content |-> <<1600>>, conversation_id |-> 1],
      [memory_type |-> "procedural", content |-> <<1200>>],
      [memory_type |-> "", content |-> <<800>>] }

\* a ranked list: one record per memory, so the ids are distinct
RankedLists ==
    { [i \in 1..Len(l) |-> Update(l[i], [memory_id |-> i])] :
        l \in UNION {[1..n -> MemoryTemplates] : n \in 0..MaxItems} }

\* constructor arguments: all left out, or small budgets
BuilderArgs ==
    { [max_tokens |-> None, profile |-> None, semantic |-> None,
       episodic |-> None, procedural |-> None, entity |-> None],
      [max_tokens |-> 1000, profile |-> 400, semantic |-> 500,
       episodic |-> 500, procedural |-> 400, entity |-> None] }

\* the max_tokens passed to build()
MaxTokensArgs == {None, 300}

\* entity context texts: none, and two words of 799 characters
EntityTexts == {NoText, <<799, 799>>}

BuildInit ==
    /\ RetrievalIdle /\ RankIdle /\ ChatIdle /\ AnalyzerIdle /\ CounterIdle /\ LateIdle
    /\ builder_args \in BuilderArgs
    /\ adaptive \in BOOLEAN
    /\ memories \in RankedLists
    /\ max_tokens_arg \in MaxTokensArgs
    /\ entity_context_arg \in EntityTexts
    /\ context = NoContext
    /\ prev_context = NoContext
    /\ build_calls = 0
    /\ uuid_count = 0
    /\ clock = 0

\* a build() call returns ctx, the clock standing at now
Built(ctx, now) ==
    /\ context' = ctx
    /\ prev_context' = context
    /\ build_calls' = build_calls + 1
    /\ uuid_count' = uuid_count + Draws(ctx)
    /\ clock' = now
    /\ UNCHANGED <<builder_args, adaptive, memories, max_tokens_arg,
                   entity_context_arg, retrieval_vars, rank_vars, chat_vars,
                   analyzer_vars, counter_vars, late_vars>>

\* context_builder.build(memories, max_tokens, entity_context) on a
\* ContextBuilder; time may have moved on since the call before
Build ==
    /\ ~adaptive
    /\ build_calls < MaxBuilds
    /\ \E now \in {clock, clock + 1} :
         \E ctx \in {build(ContextBuilderInit(builder_args), memories,
                           max_tokens_arg, entity_context_arg, now, uuid_count)} :
            Built(ctx, now)

\* the same call on an AdaptiveContextBuilder
AdaptiveBuild ==
    /\ adaptive
    /\ build_calls < MaxBuilds
    /\ \E now \in {clock, clock + 1} :
         \E ctx \in {adaptive_build(ContextBuilderInit(builder_args), memories,
                                    max_tokens_arg, entity_context_arg, now,
                                    uuid_count)} :
            Built(ctx, now)

BuildNext ==
    \/ Build
    \/ AdaptiveBuild

BuildSpec == BuildInit /\ [][BuildNext]_vars

\* ============================================================ ChatService
\* one content for every row: a word of 1600 characters
RowContent == <<1600>>

\* the dict a strategy builds from the row of result r (vector_search.py
\* 108-118, keyword_search.py 111-122, graph_search.py 366-376,
\* retrieval_service.py 274-283 and 323-333): what rank() and build() read
ResultDict(r) ==
    LET row  == CHOOSE m \in Range(Memories) : m.id = r.memory_id
        base == [memory_id |-> r.memory_id, content |-> RowContent,
                 memory_type |-> row.type, reliability |-> row.confidence,
                 created_at |-> Today - row.created, score |-> r.score,
                 match_type |-> <<r.match_type>>]
    IN  CASE r.match_type = "vector"  -> Update(base, [vector_score |-> r.score])
          [] r.match_type = "keyword" -> Update(base, [keyword_score |-> r.score,
                                                       access_count |-> 0])
          [] OTHER                    -> Update(base, [access_count |-> 0])

\* ChatService.__init__: HybridRanker() and ContextBuilder() without arguments
ChatBudgets ==
    ContextBuilderInit([k \in DOMAIN DefaultBudgets |-> None])

ChatInit == RetrievalInit

\* _retrieve_memories from the return of multi_strategy_retrieve on: None for
\* an exception or an empty list, otherwise rank() and build()
RetrieveMemories ==
    /\ chat = "idle"
    /\ orch \in {"returned", "raised"}
    /\ IF orch = "raised" \/ combined_results = <<>>
         THEN /\ chat' = "none"
              /\ UNCHANGED <<rank_vars, build_vars>>
         ELSE \E now \in {clock, clock + 1} :
              \E out \in {rank(DefaultWeights,
                               [i \in 1..Len(combined_results) |->
                                   ResultDict(combined_results[i])])} :
              \E ctx \in {build(ChatBudgets, [p \in 1..Len(out) |-> out[p].rec],
                                DefaultBudgets.max_tokens, NoText, now, uuid_count)} :
                 /\ chat' = "context"
                 /\ items' = [p \in 1..Len(out) |-> out[p].rec]
                 /\ ranked' = [p \in 1..Len(out) |-> out[p].rec]
                 /\ alias' = [p \in 1..Len(out) |-> p]
                 /\ last_input' = [i \in 1..Len(combined_results) |->
                                      ResultDict(combined_results[i])]
                 /\ rank_calls' = rank_calls + 1
                 /\ memories' = [p \in 1..Len(out) |-> out[p].rec]
                 /\ max_tokens_arg' = DefaultBudgets.max_tokens
                 /\ context' = ctx
                 /\ prev_context' = context
                 /\ build_calls' = build_calls + 1
                 /\ uuid_count' = uuid_count + Draws(ctx)
                 /\ clock' = now
                 /\ UNCHANGED <<weights, builder_args, adaptive, entity_context_arg>>
    /\ UNCHANGED <<retrieval_vars, analyzer_vars, counter_vars, late_vars>>

ChatNext ==
    \/ RetrievalNext
    \/ RetrieveMemories

ChatSpec == ChatInit /\ [][ChatNext]_vars

\* ========================================================== QueryAnalyzer
\* A query is the list of its lexemes: words (maximal runs of word
\* characters), "?" and " " (one whitespace character). The string is their
\* concatenation, so a word lexeme is a whole word: both its ends are word
\* boundaries (\b).
Words == {"What", "what", "was", "can", "you", "create", "my", "dog", "how"}

Lexemes == Words \cup {"?", " "}

\* len(w)
WordLen(w) ==
    CASE w \in {"my"} -> 2
      [] w \in {"was", "can", "you", "dog", "how"} -> 3
      [] w \in {"What", "what"} -> 4
      [] w = "create" -> 6

\* str.lower() on a lexeme
LowerWord(w) == IF w = "What" THEN "what" ELSE w

\* query.lower()
Lower(q) == [i \in 1..Len(q) |-> LowerWord(q[i])]

\* str.strip(): leading and trailing whitespace removed
RECURSIVE Strip(_)
Strip(q) ==
    IF q = <<>> THEN q
    ELSE IF Head(q) = " " THEN Strip(Tail(q))
    ELSE IF q[Len(q)] = " " THEN Strip(SubSeq(q, 1, Len(q) - 1))
    ELSE q

\* str.split(): the maximal runs of lexemes other than whitespace
RECURSIVE Split(_, _)
Split(q, run) ==
    IF q = <<>> THEN (IF run = <<>> THEN <<>> ELSE <<run>>)
    ELSE IF Head(q) = " "
      THEN (IF run = <<>> THEN <<>> ELSE <<run>>) \o Split(Tail(q), <<>>)
    ELSE Split(Tail(q), Append(run, Head(q)))

\* the phrase occurs in q, lexeme for lexeme
HasPhrase(q, phrase) ==
    \E i \in 1..(Len(q) - Len(phrase) + 1) :
        SubSeq(q, i, i + Len(phrase) - 1) = phrase

\* re.search of an alternation of whole words and phrases, \b on both sides
SearchAny(q, words, phrases) ==
    \/ \E i \in 1..Len(q) : q[i] \in words
    \/ \E phrase \in phrases : HasPhrase(q, phrase)

\* "h in query" for a word h: some lexeme has h as a substring; of the
\* vocabulary only the word itself has
SubstringIn(h, q) == \E i \in 1..Len(q) : q[i] = h

\* self.recall_patterns
MatchesRecall(q) ==
    \/ SearchAny(q, {"remember", "recall", "told", "said", "mentioned", "discussed"},
                 {<<"talked", " ", "about">>})
    \/ SearchAny(q, {"before", "previously", "earlier"},
                 {<<"last", " ", "time">>, <<"when", " ", "did">>})
    \/ SearchAny(q, {}, {<<"what", " ", "was">>, <<"what", " ", "were">>,
                         <<"what", " ", "did">>})
    \/ SearchAny(q, {}, {<<a, " ", b>> : a \in {"my", "our"},
                                         b \in {"favorite", "preference", "choice"}})

\* the third command pattern:
\* ^(please|can you|could you|would you)\s+(create|make|write|help)\b
PoliteCommand(q) ==
    \E opening \in {<<"please">>, <<"can", " ", "you">>, <<"could", " ", "you">>,
                    <<"would", " ", "you">>} :
      /\ Len(q) > Len(opening)
      /\ SubSeq(q, 1, Len(opening)) = opening
      /\ \E j \in (Len(opening) + 2)..Len(q) :
            /\ \A k \in (Len(opening) + 1)..(j - 1) : q[k] = " "
            /\ q[j] \in {"create", "make", "write", "help"}

\* self.command_patterns, anchored at the start of the query
MatchesCommand(q) ==
    \/ /\ q # <<>>
       /\ q[1] \in {"create", "make", "build", "write", "generate", "add", "update",
                    "delete", "remove"}
    \/ /\ q # <<>>
       /\ q[1] \in {"set", "configure", "change", "modify", "fix", "solve", "help"}
    \/ PoliteCommand(q)

\* self.question_patterns
MatchesQuestion(q) ==
    \/ /\ q # <<>>
       /\ q[1] \in {"what", "who", "where", "when", "why", "how", "which", "can",
                    "could", "would", "should", "is", "are", "do", "does"}
    \/ /\ q # <<>>
       /\ q[Len(q)] = "?"
    \/ SearchAny(q, {"explain", "describe", "define"}, {<<"tell", " ", "me", " ", "about">>})

\* the groups tested in the order recall, question, command
detect_intent_question_first(q) ==
    IF MatchesRecall(q) THEN "recall"
    ELSE IF MatchesQuestion(q) THEN "question"
    ELSE IF MatchesCommand(q) THEN "command"
    ELSE "conversation"

\* QueryAnalyzer._detect_intent
detect_intent(q) ==
    IF MatchesRecall(q) THEN "recall"
    ELSE IF MatchesCommand(q) THEN "command"
    ELSE IF MatchesQuestion(q) THEN "question"
    ELSE "conversation"

\* self.stopwords, as far as the vocabulary goes
stopwords == {"what", "was", "can", "you", "my"}

\* the first occurrences of the elements of s, in order
RECURSIVE Unique(_)
Unique(s) ==
    IF s = <<>> THEN <<>>
    ELSE LET front == Unique(SubSeq(s, 1, Len(s) - 1))
         IN  IF s[Len(s)] \in Range(front) THEN front ELSE Append(front, s[Len(s)])

\* QueryAnalyzer._extract_keywords
extract_keywords(q) ==
    LET words == SelectSeq(Lower(q), LAMBDA w : w \in {LowerWord(v) : v \in Words})
        keywords == SelectSeq(words, LAMBDA w : w \notin stopwords /\ WordLen(w) > 2)
    IN  Take(Unique(keywords), 15)

\* QueryAnalyzer._extract_topics: the words after "about" and "regarding";
\* a quoted phrase needs a quote character, which no lexeme has
extract_topics(q) ==
    {LowerWord(q[i + 2]) : i \in {j \in 1..(Len(q) - 2) :
                                    /\ LowerWord(q[j]) \in {"about", "regarding"}
                                    /\ q[j + 1] = " "
                                    /\ q[j + 2] \in Words}}

\* QueryAnalyzer._detect_entities: of self.entity_patterns only the first,
\* two capitalized words, can match lexemes of the vocabulary
detect_entities(q) ==
    {<<q[i], " ", q[i + 2]>> : i \in {j \in 1..(Len(q) - 2) :
                                        /\ q[j] = "What"
                                        /\ q[j + 1] = " "
                                        /\ q[j + 2] = "What"}}

\* time_reference when no pattern matches
NoTimeReference == "None"

\* QueryAnalyzer._detect_time_reference: the first pattern that matches; the
\* date pattern needs digits, which no lexeme has
detect_time_reference(q) ==
    IF SearchAny(q, {"today", "now", "currently"}, {}) THEN "present"
    ELSE IF SearchAny(q, {"yesterday"}, {<<"last", " ", "night">>}) THEN "recent"
    ELSE IF SearchAny(q, {}, {<<"last", " ", "week">>, <<"past", " ", "week">>}) THEN "week"
    ELSE IF SearchAny(q, {}, {<<"last", " ", "month">>, <<"past", " ", "month">>}) THEN "month"
    ELSE IF SearchAny(q, {}, {<<"last", " ", "year">>, <<"past", " ", "year">>}) THEN "year"
    ELSE IF SearchAny(q, {"january", "february", "march", "april", "may", "june",
                          "july", "august", "september", "october", "november",
                          "december"}, {}) THEN "month_name"
    ELSE NoTimeReference

\* QueryAnalyzer._requires_memory
requires_memory(intent, q) ==
    IF intent = "recall" THEN TRUE
    ELSE IF intent = "command"
      THEN \E h \in {"my", "prefer", "usual", "always", "like"} : SubstringIn(h, q)
    ELSE IF intent = "question"
      THEN \E h \in {"my", "i", "me", "we", "our"} : <<h>> \in Range(Split(q, <<>>))
    ELSE TRUE

\* no memory type for any intent
NoMemoryTypes(intent, q) == <<>>

\* QueryAnalyzer._determine_memory_types
QueryAnalyzer_determine_memory_types(intent, q) ==
    IF intent = "recall" THEN <<"profile", "semantic", "episodic", "procedural">>
    ELSE IF intent = "question"
      THEN <<"semantic", "profile">>
             \o (IF \E h \in {"how", "process", "step"} : SubstringIn(h, q)
                   THEN <<"procedural">> ELSE <<>>)
    ELSE IF intent = "command" THEN <<"procedural", "profile">>
    ELSE <<"episodic", "semantic", "profile">>

\* QueryAnalyzer._calculate_confidence, in thousandths
calculate_confidence(intent, keywords, q) ==
    LET words == Len(Split(q, <<>>))
        c == 500
               + (IF Len(keywords) >= 3 THEN 100 ELSE 0)
               + (IF Len(keywords) >= 5 THEN 100 ELSE 0)
               + (CASE intent = "recall" -> 200
                    [] intent \in {"question", "command"} -> 150
                    [] OTHER -> 0)
               + (IF 5 <= words /\ words <= 30 THEN 100
                  ELSE IF words > 30 THEN 0 - 100 ELSE 0)
    IN  Min(1000, Max(0, c))

\* QueryAnalyzer.analyze
analyze(q) ==
    LET query_lower == Strip(Lower(q))
        intent      == detect_intent(query_lower)
        keywords    == extract_keywords(q)
    IN  [returned |-> TRUE,
         original_query |-> q,
         intent |-> intent,
         topics |-> extract_topics(q),
         keywords |-> keywords,
         entities_mentioned |-> detect_entities(q),
         time_reference |-> detect_time_reference(query_lower),
         requires_memory |-> requires_memory(intent, query_lower),
         memory_types_needed |-> QueryAnalyzer_determine_memory_types(intent, query_lower),
         confidence |-> calculate_confidence(intent, keywords, query_lower)]

\* longest query, in lexemes
MaxQueryLen == 5

\* the queries of n lexemes: no two words side by side (they would be one
\* word)
RECURSIVE QueriesOfLen(_)
QueriesOfLen(n) ==
    IF n = 0 THEN {<<>>}
    ELSE {Append(p[1], p[2]) :
            p \in {r \in QueriesOfLen(n - 1) \X Lexemes :
                     ~(r[1] # <<>> /\ r[1][Len(r[1])] \in Words /\ r[2] \in Words)}}

Queries == UNION {QueriesOfLen(n) : n \in 0..MaxQueryLen}

AnalyzerInit ==
    /\ RetrievalIdle /\ RankIdle /\ BuildIdle /\ ChatIdle /\ CounterIdle /\ LateIdle
    /\ query \in Queries
    /\ query_analysis = NoAnalysis

\* query_analyzer.analyze(query)
Analyze ==
    /\ query_analysis = NoAnalysis
    /\ query_analysis' = analyze(query)
    /\ UNCHANGED <<query, retrieval_vars, rank_vars, build_vars, chat_vars,
                   counter_vars, late_vars>>

AnalyzerNext == Analyze

AnalyzerSpec == AnalyzerInit /\ [][AnalyzerNext]_vars

\* =========================================================== TokenCounter
\* TokenCounter.count on a string, tiktoken not installed: 0 for the empty
\* string, else the estimate of line 69
TokenCounter_count(s) == IF s = NoString THEN 0 ELSE Len(s) \div 4

\* text[:n] of Python: a negative n counts from the end
SliceTo(s, n) ==
    IF n >= 0 THEN SubSeq(s, 1, Min(n, Len(s)))
    ELSE SubSeq(s, 1, Max(0, Len(s) + n))

\* s.rsplit(" ", 1)[0]: what stands before the last space
BeforeLastSpace(s) ==
    IF \E i \in 1..Len(s) : s[i] = " "
      THEN SubSeq(s, 1, (CHOOSE i \in 1..Len(s) :
                            /\ s[i] = " "
                            /\ \A j \in (i + 1)..Len(s) : s[j] # " ") - 1)
      ELSE s

\* truncated += "..."
WithEllipsis(s) == s \o <<".", ".", ".">>

\* TokenCounter.truncate_to_tokens, character-estimate path (lines 139-154)
truncate_to_tokens(s, limit, ellipsis) ==
    IF s = NoString THEN NoString
    ELSE IF TokenCounter_count(s) <= limit THEN s
    ELSE LET max_chars == IF ellipsis THEN limit * 4 - 3 ELSE limit * 4
             cut       == BeforeLastSpace(SliceTo(s, max_chars))
         IN  IF ellipsis THEN WithEllipsis(cut) ELSE cut

\* longest text, in characters
MaxTextLen == 9

\* largest max_tokens
MaxTokens == 2

\* the texts: letters and spaces
Texts == UNION {[1..n -> {"a", " "}] : n \in 0..MaxTextLen}

CounterInit ==
    /\ RetrievalIdle /\ RankIdle /\ BuildIdle /\ ChatIdle /\ AnalyzerIdle /\ LateIdle
    /\ text \in Texts
    /\ max_tokens \in 0..MaxTokens
    /\ add_ellipsis \in BOOLEAN
    /\ truncated_text = NoTruncation

\* counter.truncate_to_tokens(text, max_tokens, add_ellipsis)
Truncate ==
    /\ truncated_text = NoTruncation
    /\ truncated_text' = [returned |-> TRUE,
                          text |-> truncate_to_tokens(text, max_tokens, add_ellipsis)]
    /\ UNCHANGED <<text, max_tokens, add_ellipsis, retrieval_vars, rank_vars,
                   build_vars, chat_vars, analyzer_vars, late_vars>>

CounterNext == Truncate

CounterSpec == CounterInit /\ [][CounterNext]_vars

\* ==================================== VectorSearch: the embedding cache
\* ==================================== under concurrent search() calls

\* concurrent search() tasks on the event loop, and searches made in all
MaxSearchTasks == 2
MaxSearches == 3

SearchTasks == 1..MaxSearchTasks

\* a cache key f"{user_id}:{query}" is a number
CacheKeys == 1..(cache_max_size + 2)

\* the keys searched for: two the cache may hold, three it does not
SearchedKeys == {1, cache_max_size, cache_max_size + 1, cache_max_size + 2}

\* the cache after the searches for the keys 1..n, one after the other
CacheOf(n) == [i \in 1..n |-> i]

retrieval_but_cache ==
    <<user_id, analysis, limit_per_strategy, orch, memory_types, status,
      results, issued, combined_results>>

late_but_cache ==
    <<truncation, split, rerank, query_types, collector, span_tasks, emitter,
      traversal>>

\* no eviction yet
NoEviction == [key |-> 0, earliest |-> 0]

CacheInit ==
    /\ RankIdle /\ BuildIdle /\ ChatIdle /\ AnalyzerIdle /\ CounterIdle
    /\ user_id = "A"
    /\ analysis = [intent |-> "conversation", memory_types_needed |-> <<>>,
                   keywords |-> <<>>, entities_mentioned |-> <<>>]
    /\ limit_per_strategy = 1
    /\ orch = "idle"
    /\ memory_types = <<>>
    /\ status = [s \in Strategies |-> "none"]
    /\ results = [s \in Strategies |-> <<>>]
    /\ issued = {}
    /\ combined_results = <<>>
    /\ \E n \in {0, cache_max_size - 1, cache_max_size} :
          /\ embedding_cache = CacheOf(n)
          /\ cache_log = [stamp |-> [k \in CacheKeys |-> IF k <= n THEN k ELSE 0],
                          clock |-> n, calls |-> 0, evicted |-> NoEviction]
    /\ searches = [t \in SearchTasks |-> [pc |-> "idle", cache_key |-> 0]]
    /\ truncation = Idle
    /\ split = Idle
    /\ rerank = Idle
    /\ query_types = <<>>
    /\ collector = Idle
    /\ span_tasks = Idle
    /\ emitter = Idle
    /\ traversal = Idle

\* the key among keys that went into the cache first
EarliestInserted(stamp, keys) ==
    CHOOSE k \in keys : \A j \in keys : stamp[k] <= stamp[j]

\* lines 60-66: a hit takes the stored embedding, a miss hands embed() to a
\* thread and suspends the task
CacheLookup(t, k) ==
    /\ searches[t].pc # "awaiting"
    /\ cache_log.calls < MaxSearches
    /\ searches' = [searches EXCEPT ![t] =
                      [pc |-> IF k \in Range(embedding_cache) THEN "hit" ELSE "awaiting",
                       cache_key |-> k]]
    /\ cache_log' = [cache_log EXCEPT !.calls = @ + 1]
    /\ UNCHANGED <<embedding_cache, retrieval_but_cache, rank_vars, core_vars,
                   late_but_cache>>

\* lines 66-72: the task resumes with the embedding, stores it and evicts;
\* nothing else runs on the event loop between these statements
CacheStore(t) ==
    /\ searches[t].pc = "awaiting"
    /\ LET key    == searches[t].cache_key
           fresh  == key \notin Range(embedding_cache)
           stamp  == IF fresh
                       THEN [cache_log.stamp EXCEPT ![key] = cache_log.clock + 1]
                       ELSE cache_log.stamp
           held   == Range(embedding_cache) \cup {key}
           after  == CacheInsert(embedding_cache, key)
           gone   == held \ Range(after)
       IN  /\ embedding_cache' = after
           /\ cache_log' =
                [cache_log EXCEPT
                   !.stamp = [k \in CacheKeys |-> IF k \in gone THEN 0 ELSE stamp[k]],
                   !.clock = IF fresh THEN @ + 1 ELSE @,
                   !.evicted = IF gone = {} THEN @
                               ELSE [key |-> CHOOSE k \in gone : TRUE,
                                     earliest |-> EarliestInserted(stamp, held)]]
    /\ searches' = [searches EXCEPT ![t].pc = "stored"]
    /\ UNCHANGED <<retrieval_but_cache, rank_vars, core_vars, late_but_cache>>

\* line 66: embed() raises in the thread, the exception leaves search()
CacheEmbedFail(t) ==
    /\ searches[t].pc = "awaiting"
    /\ searches' = [searches EXCEPT ![t].pc = "raised"]
    /\ UNCHANGED <<embedding_cache, cache_log, retrieval_but_cache, rank_vars,
                   core_vars, late_but_cache>>

CacheNext ==
    \/ \E t \in SearchTasks, k \in SearchedKeys : CacheLookup(t, k)
    \/ \E t \in SearchTasks : CacheStore(t)
    \/ \E t \in SearchTasks : CacheEmbedFail(t)

CacheSpec == CacheInit /\ [][CacheNext]_vars

\* ===================================== ContextBuilder._truncate_to_tokens,
\* ===================================== statement by statement

\* words of a text, and the lengths a word can have
MaxWords == 3

WordLens == {1, 4, 5}

RECURSIVE TextsOfLen(_)
TextsOfLen(n) ==
    IF n = 0 THEN {<<>>}
    ELSE {Append(t, w) : t \in TextsOfLen(n - 1), w \in WordLens}

TruncTexts == UNION {TextsOfLen(n) : n \in 0..MaxWords}

late_but_truncation ==
    <<searches, cache_log, split, rerank, query_types, collector, span_tasks,
      emitter, traversal>>

TruncInit ==
    /\ RetrievalIdle /\ RankIdle /\ BuildIdle /\ ChatIdle /\ AnalyzerIdle
    /\ CounterIdle
    /\ truncation \in
         {[pc |-> "called", text |-> t, max_tokens |-> limit, low |-> 0,
           high |-> 0, result |-> NoText] :
            t \in TruncTexts, limit \in 0..MaxTokens}
    /\ searches = Idle
    /\ cache_log = Idle
    /\ split = Idle
    /\ rerank = Idle
    /\ query_types = <<>>
    /\ collector = Idle
    /\ span_tasks = Idle
    /\ emitter = Idle
    /\ traversal = Idle

\* a midpoint rounded down
MidFloor(low, high) == (low + high) \div 2

\* line 348
Mid(low, high) == (low + high + 1) \div 2

\* lines 335-345: the two early returns, otherwise the search starts on
\* the words of the text
TruncEnter ==
    /\ truncation.pc = "called"
    /\ truncation' =
         IF truncation.text = NoText
           THEN [truncation EXCEPT !.pc = "returned", !.result = NoText]
         ELSE IF count(truncation.text) <= truncation.max_tokens
           THEN [truncation EXCEPT !.pc = "returned", !.result = truncation.text]
         ELSE [truncation EXCEPT !.pc = "loop", !.low = 0,
                                 !.high = Len(truncation.text)]
    /\ UNCHANGED <<retrieval_vars, rank_vars, core_vars, late_but_truncation>>

\* lines 347-353: one turn of the loop
TruncStep ==
    /\ truncation.pc = "loop"
    /\ truncation.low < truncation.high
    /\ LET mid == Mid(truncation.low, truncation.high)
       IN  truncation' =
             IF count(Take(truncation.text, mid)) <= truncation.max_tokens
               THEN [truncation EXCEPT !.low = mid]
               ELSE [truncation EXCEPT !.high = mid - 1]
    /\ UNCHANGED <<retrieval_vars, rank_vars, core_vars, late_but_truncation>>

\* line 355: the loop is left, the first low words and the ellipsis
TruncReturn ==
    /\ truncation.pc = "loop"
    /\ truncation.low >= truncation.high
    /\ truncation' =
         [truncation EXCEPT !.pc = "cut",
                            !.result = AddEllipsis(Take(truncation.text, truncation.low))]
    /\ UNCHANGED <<retrieval_vars, rank_vars, core_vars, late_but_truncation>>

TruncNext ==
    \/ TruncEnter
    \/ TruncStep
    \/ TruncReturn

TruncSpec == TruncInit /\ [][TruncNext]_vars

\* the call runs to its end once made: nothing else is awaited in it
TruncLiveSpec == TruncSpec /\ WF_vars(TruncNext)

\* ================================== TokenCounter.split_by_tokens, with the
\* ================================== tokenizer loaded

\* tokens of a text, and the largest chunk_size
MaxTextTokens == 5
MaxChunkSize == 3

\* the chunks kept in the state; a list that grows past this keeps growing
\* in the program and stays as it is here, with overflow set; turn is the
\* parity of the number of chunks appended
KeptChunks == MaxTextTokens + 1

late_but_split ==
    <<searches, cache_log, truncation, rerank, query_types, collector,
      span_tasks, emitter, traversal>>

\* a text is the list 1..n of its tokens; a chunk is an interval of it,
\* tokens[start:end], which decode() turns back into text
SplitInit ==
    /\ RetrievalIdle /\ RankIdle /\ BuildIdle /\ ChatIdle /\ AnalyzerIdle
    /\ CounterIdle
    /\ split \in
         {[pc |-> "called", tokens |-> n, chunk_size |-> size, overlap |-> o,
           start |-> 0, chunks |-> <<>>, overflow |-> FALSE, turn |-> 0] :
            n \in 1..MaxTextTokens, size \in 1..MaxChunkSize,
            o \in 0..(MaxChunkSize - 1)}
    /\ split.overlap < split.chunk_size
    /\ searches = Idle
    /\ cache_log = Idle
    /\ truncation = Idle
    /\ rerank = Idle
    /\ query_types = <<>>
    /\ collector = Idle
    /\ span_tasks = Idle
    /\ emitter = Idle
    /\ traversal = Idle

\* lines 172-183: a text of at most chunk_size tokens is its own only chunk
SplitEnter ==
    /\ split.pc = "called"
    /\ split' =
         IF split.tokens <= split.chunk_size
           THEN [split EXCEPT !.pc = "returned",
                              !.chunks = << [start |-> 0, end |-> split.tokens] >>]
           ELSE [split EXCEPT !.pc = "loop", !.start = 0]
    /\ UNCHANGED <<retrieval_vars, rank_vars, core_vars, late_but_split>>

\* lines 185-190: one turn of the loop
SplitStep ==
    /\ split.pc = "loop"
    /\ split.start < split.tokens
    /\ LET end == Min(split.start + split.chunk_size, split.tokens)
       IN  split' =
             [split EXCEPT
                !.chunks = IF Len(@) < KeptChunks
                             THEN Append(@, [start |-> split.start, end |-> end])
                             ELSE @,
                !.overflow = Len(split.chunks) >= KeptChunks,
                !.turn = 1 - @,
                !.start = end - split.overlap]
    /\ UNCHANGED <<retrieval_vars, rank_vars, core_vars, late_but_split>>

\* line 192
SplitReturn ==
    /\ split.pc = "loop"
    /\ split.start >= split.tokens
    /\ split' = [split EXCEPT !.pc = "returned"]
    /\ UNCHANGED <<retrieval_vars, rank_vars, core_vars, late_but_split>>

SplitNext ==
    \/ SplitEnter
    \/ SplitStep
    \/ SplitReturn

SplitSpec == SplitInit /\ [][SplitNext]_vars

\* the call runs on once made: nothing is awaited in it
SplitLiveSpec == SplitSpec /\ WF_vars(SplitNext)

\* ================================== HybridRanker.rerank_with_context

\* longest list handed to rerank_with_context
MaxReranked == 2

\* str.lower() on a string, a list of characters
LowerChar(ch) == IF ch = "A" THEN "a" ELSE IF ch = "B" THEN "b" ELSE ch

LowerStr(s) == [i \in 1..Len(s) |-> LowerChar(s[i])]

\* "a in b" on strings
IsSubstring(a, b) ==
    \E i \in 0..(Len(b) - Len(a)) : SubSeq(b, i + 1, i + Len(a)) = a

\* the scores of the dicts: 1005 is what rank() gives under weights that
\* sum to 1.01; a dict may have no "score" key
RerankScores == {0, 500, 800, 1000, 1005}

RerankKeywords == {{}, {"t1"}, {"t1", "t2", "t3", "t4"}}

RerankContents == {<<"A", "l", " ", "b">>, <<"x">>}

\* the dicts, each with its place in the caller's list as it was passed in
RerankDicts(i) ==
    {[id |-> i, score |-> s, keywords |-> k, content |-> body] :
        s \in RerankScores, k \in RerankKeywords, body \in RerankContents}
    \cup {[id |-> i, keywords |-> k, content |-> body] :
        k \in RerankKeywords, body \in RerankContents}

RECURSIVE RerankLists(_)
RerankLists(n) ==
    IF n = 0 THEN {<<>>}
    ELSE {Append(l, d) : l \in RerankLists(n - 1), d \in RerankDicts(n)}

\* the context dicts: {} among them, and one with keys but nothing in them
EmptyContext == <<>>

RerankContexts ==
    { EmptyContext,
      [topics |-> {}, entities |-> {}],
      [topics |-> {"t1", "t2", "t3", "t4"}, entities |-> {<<"a", "l">>}],
      [topics |-> {"t1"}, entities |-> {<<"A", "l">>, <<"b">>, <<"y">>}] }

\* lines 314-326: the boost of one result
Boost(result, ctx) ==
    100 * Cardinality(ctx.topics \cap Get(result, "keywords", {}))
    + 50 * Cardinality({en \in ctx.entities :
                           IsSubstring(LowerStr(en),
                                       LowerStr(Get(result, "content", <<>>)))})

\* a boost applied without the cap of 0.3
Uncapped(boost) == boost

\* line 329: min(0.3, boost)
Capped(boost) == Min(300, boost)

\* lines 306-334; the dicts are changed in place and the caller's list is
\* sorted in place and returned
rerank_with_context(list, ctx) ==
    IF ctx = EmptyContext THEN list
    ELSE LET boosted ==
               [i \in 1..Len(list) |->
                  Update(list[i],
                         [score |-> Min(1000, Get(list[i], "score", 0)
                                              + Capped(Boost(list[i], ctx)))])]
         IN  StableSortDesc(boosted, [i \in 1..Len(boosted) |-> boosted[i].score])

late_but_rerank ==
    <<searches, cache_log, truncation, split, query_types, collector,
      span_tasks, emitter, traversal>>

RerankInit ==
    /\ RetrievalIdle /\ RankIdle /\ BuildIdle /\ ChatIdle /\ AnalyzerIdle
    /\ CounterIdle
    /\ \E n \in 0..MaxReranked :
       \E list \in RerankLists(n) :
       \E ctx \in RerankContexts :
          rerank = [pc |-> "called", passed |-> list, results |-> list,
                    context |-> ctx]
    /\ searches = Idle
    /\ cache_log = Idle
    /\ truncation = Idle
    /\ split = Idle
    /\ query_types = <<>>
    /\ collector = Idle
    /\ span_tasks = Idle
    /\ emitter = Idle
    /\ traversal = Idle

\* ranker.rerank_with_context(results, context)
Rerank ==
    /\ rerank.pc = "called"
    /\ rerank' = [rerank EXCEPT
                    !.pc = "returned",
                    !.results = rerank_with_context(rerank.passed, rerank.context)]
    /\ UNCHANGED <<retrieval_vars, rank_vars, core_vars, late_but_rerank>>

RerankNext == Rerank

RerankSpec == RerankInit /\ [][RerankNext]_vars

\* ============================ AdaptiveHybridRanker.rank_for_query_type

\* the query types passed in: the three with a preset, one intent without,
\* and a spelling the comparison does not recognise
QueryTypes == {"recall", "question", "conversation", "command", "Recall"}

\* a table that leaves the weights of an unrecognised type as they are
KeepWeightsTable(current) ==
    [qt \in QueryTypes |->
       CASE qt = "recall" ->
              [keyword |-> 400, vector |-> 150, reliability |-> 150,
               recency |-> 250, frequency |-> 50]
         [] qt = "question" ->
              [keyword |-> 200, vector |-> 350, reliability |-> 300,
               recency |-> 100, frequency |-> 50]
         [] qt = "conversation" ->
              [keyword |-> 300, vector |-> 250, reliability |-> 200,
               recency |-> 200, frequency |-> 50]
         [] OTHER -> current]

\* lines 355-385: the weights in effect after the assignments, per query type
QueryTypeWeights(current) ==
    [qt \in QueryTypes |->
       CASE qt = "recall" ->
              [keyword |-> 400, vector |-> 150, reliability |-> 150,
               recency |-> 250, frequency |-> 50]
         [] qt = "question" ->
              [keyword |-> 200, vector |-> 350, reliability |-> 300,
               recency |-> 100, frequency |-> 50]
         [] qt = "conversation" ->
              [keyword |-> 300, vector |-> 250, reliability |-> 200,
               recency |-> 200, frequency |-> 50]
         [] OTHER -> DefaultWeights]

AdaptiveInit ==
    /\ RetrievalIdle
    /\ BuildIdle /\ ChatIdle /\ AnalyzerIdle /\ CounterIdle /\ LateIdle
    /\ weights \in {HybridRankerInit(args) : args \in WeightArgs}
    /\ items \in {<<>>} \cup {<<d>> : d \in ResultDicts}
    /\ ranked = <<>>
    /\ alias = <<>>
    /\ last_input = <<>>
    /\ rank_calls = 0

\* lines 340-387: assign the five weights, then rank(results)
RankForQueryType(qt) ==
    /\ rank_calls < MaxCalls
    /\ \E w \in {QueryTypeWeights(weights)[qt]} :
       \E out \in {rank(w, items)} :
         LET ref == [p \in 1..Len(out) |-> out[p].src]
         IN  /\ weights' = w
             /\ ranked' = [p \in 1..Len(out) |-> out[p].rec]
             /\ alias' = ref
             /\ items' = WriteBack(items, out, ref)
    /\ last_input' = items
    /\ rank_calls' = rank_calls + 1
    /\ query_types' = Append(query_types, qt)
    /\ UNCHANGED <<retrieval_vars, core_vars, searches, cache_log, truncation,
                   split, rerank, collector, span_tasks, emitter, traversal>>

AdaptiveNext ==
    \/ \E qt \in QueryTypes : RankForQueryType(qt)
    \/ Rank

AdaptiveSpec == AdaptiveInit /\ [][AdaptiveNext]_vars

\* ============================== AnalyticsCollector spans and track_span

\* concurrent tasks of one request, and spans started in all
MaxSpanTasks == 2
MaxSpans == 3

SpanTasks == 1..MaxSpanTasks

late_but_spans ==
    <<searches, cache_log, truncation, split, rerank, query_types, emitter,
      traversal>>

\* AnalyticsCollector.__init__, and no task inside a track_span; a task's
\* open list holds the spans its track_span blocks started and have not
\* left, innermost last
SpanInit ==
    /\ RetrievalIdle /\ RankIdle /\ BuildIdle /\ ChatIdle /\ AnalyzerIdle
    /\ CounterIdle
    /\ collector = [spans |-> <<>>, span_stack |-> <<>>, finalized |-> FALSE]
    /\ span_tasks = [t \in SpanTasks |-> [open |-> <<>>]]
    /\ searches = Idle
    /\ cache_log = Idle
    /\ truncation = Idle
    /\ split = Idle
    /\ rerank = Idle
    /\ query_types = <<>>
    /\ emitter = Idle
    /\ traversal = Idle

\* the top of the span stack, 0 when it is empty
Top(stack) == IF stack = <<>> THEN 0 ELSE stack[Len(stack)]

\* list.pop()
Pop(stack) == SubSeq(stack, 1, Len(stack) - 1)

\* the span that leaves a stack
Popped(stack) == CHOOSE s \in Range(stack) : s \notin Range(Pop(stack))

\* lines 110-114 and 130-134: the popped span is closed with the given
\* status; by is the task and block the span of the track_span block that
\* made the call, 0 for finalize()
CloseSpan(coll, outcome, by, block) ==
    IF coll.span_stack = <<>> THEN coll
    ELSE [coll EXCEPT
            !.span_stack = Pop(@),
            !.spans[Popped(coll.span_stack)] =
               [@ EXCEPT !.status = outcome, !.ended_by = by, !.ended_for = block]]

\* instrumentation.py 45-54 and context.py 68-96: track_span is entered, the
\* span is started and the body, which awaits, begins
SpanStart(t) ==
    /\ ~collector.finalized
    /\ Len(collector.spans) < MaxSpans
    /\ LET id == Len(collector.spans) + 1
       IN  /\ collector' =
                [collector EXCEPT
                   !.spans = Append(@, [started_by |-> t, status |-> "running",
                                        parent |-> Top(collector.span_stack),
                                        ended_by |-> 0, ended_for |-> 0]),
                   !.span_stack = Append(@, id)]
           /\ span_tasks' = [span_tasks EXCEPT ![t].open = Append(@, id)]
    /\ UNCHANGED <<retrieval_vars, rank_vars, core_vars, late_but_spans>>

\* instrumentation.py 58-59 and context.py 98-119: the body has returned
SpanEnd(t) ==
    /\ span_tasks[t].open # <<>>
    /\ collector' = CloseSpan(collector, "completed", t, Top(span_tasks[t].open))
    /\ span_tasks' = [span_tasks EXCEPT ![t].open = Pop(@)]
    /\ UNCHANGED <<retrieval_vars, rank_vars, core_vars, late_but_spans>>

\* instrumentation.py 55-57 and context.py 121-143: the body has raised
SpanFail(t) ==
    /\ span_tasks[t].open # <<>>
    /\ collector' = CloseSpan(collector, "failed", t, Top(span_tasks[t].open))
    /\ span_tasks' = [span_tasks EXCEPT ![t].open = Pop(@)]
    /\ UNCHANGED <<retrieval_vars, rank_vars, core_vars, late_but_spans>>

\* context.py 270-271: end_span() until the stack is empty
RECURSIVE CloseAll(_)
CloseAll(coll) ==
    IF coll.span_stack = <<>> THEN coll
    ELSE CloseAll(CloseSpan(coll, "completed", 0, 0))

\* context.py 260-276
Finalize ==
    /\ ~collector.finalized
    /\ collector.spans # <<>>
    /\ collector' = [CloseAll(collector) EXCEPT !.finalized = TRUE]
    /\ UNCHANGED <<span_tasks, retrieval_vars, rank_vars, core_vars, late_but_spans>>

SpanNext ==
    \/ \E t \in SpanTasks : SpanStart(t)
    \/ \E t \in SpanTasks : SpanEnd(t)
    \/ \E t \in SpanTasks : SpanFail(t)
    \/ Finalize

SpanSpec == SpanInit /\ [][SpanNext]_vars

\* ===================================================== AnalyticsEmitter

\* records emitted in all, and the buffer_size the emitter is constructed with
MaxRecords == 3
EmitterBufferSize == 2

Records == 1..MaxRecords

Backends == {"redis", "database"}

late_but_emitter ==
    <<searches, cache_log, truncation, split, rerank, query_types, collector,
      span_tasks, traversal>>

\* AnalyticsEmitter.__init__ and start(), with one backend or both, analytics
\* enabled and is_development off: pending counts the _flush tasks emit()
\* has created that have not run yet, flights are the _flush calls that hold
\* a batch and await the backends, wrote and batches say for each record
\* which backends took it and in how many delivered batches it was
EmitterInit ==
    /\ RetrievalIdle /\ RankIdle /\ BuildIdle /\ ChatIdle /\ AnalyzerIdle
    /\ CounterIdle
    /\ \E configured \in SUBSET Backends \ {{}} :
          emitter = [backends |-> configured, buffer |-> <<>>, emitted |-> 0,
                     pending |-> 0, flights |-> {}, stopped |-> FALSE,
                     wrote |-> [r \in Records |-> {}],
                     batches |-> [r \in Records |-> 0],
                     dropped |-> {}]
    /\ searches = Idle
    /\ cache_log = Idle
    /\ truncation = Idle
    /\ split = Idle
    /\ rerank = Idle
    /\ query_types = <<>>
    /\ collector = Idle
    /\ span_tasks = Idle
    /\ traversal = Idle

\* lines 104-112: the record is appended under the lock and a _flush task is
\* created when the buffer is full
Emit ==
    /\ emitter.emitted < MaxRecords
    /\ LET record == emitter.emitted + 1
           buffer == Append(emitter.buffer, record)
       IN  emitter' = [emitter EXCEPT
                         !.emitted = record,
                         !.buffer = buffer,
                         !.pending = IF Len(buffer) >= EmitterBufferSize
                                       THEN @ + 1 ELSE @]
    /\ UNCHANGED <<retrieval_vars, rank_vars, core_vars, late_but_emitter>>

\* lines 116-121: under the lock the buffer is copied into a batch and
\* cleared; an empty buffer ends the call
TakeBatch(em, by) ==
    IF em.buffer = <<>> THEN em
    ELSE [em EXCEPT !.buffer = <<>>,
                    !.flights = @ \cup {[batch |-> em.buffer, by |-> by]}]

\* a _flush task created by emit() runs
SizeFlush ==
    /\ emitter.pending > 0
    /\ emitter' = TakeBatch([emitter EXCEPT !.pending = @ - 1], "emit")
    /\ UNCHANGED <<retrieval_vars, rank_vars, core_vars, late_but_emitter>>

\* lines 81-85: the periodic task wakes from its sleep and flushes a
\* buffer that is not empty
PeriodicFlush ==
    /\ ~emitter.stopped
    /\ \A f \in emitter.flights : f.by # "periodic"
    /\ emitter.buffer # <<>>
    /\ emitter' = TakeBatch(emitter, "periodic")
    /\ UNCHANGED <<retrieval_vars, rank_vars, core_vars, late_but_emitter>>

\* lines 139-147: gather(..., return_exceptions=True) hands the backends'
\* exceptions back as values, so nothing is raised into the except branch
\* and the buffer stays as it is, whether the writes failed or not
Requeue(failed, batch, buffer) == buffer

\* lines 123-147: the backends have answered a _flush; ok are those whose
\* write succeeded
WriteDone(ok) ==
    /\ ok \subseteq emitter.backends
    /\ \E f \in emitter.flights :
       LET failed == ok # emitter.backends
           buffer == Requeue(failed, f.batch, emitter.buffer)
       IN  emitter' =
             [emitter EXCEPT
                !.flights = @ \ {f},
                !.buffer = buffer,
                !.wrote = [r \in Records |->
                             IF r \in Range(f.batch) THEN @[r] \cup ok ELSE @[r]],
                !.batches = [r \in Records |->
                               IF r \in Range(f.batch) /\ ok # {} THEN @[r] + 1
                               ELSE @[r]],
                !.dropped = IF failed /\ Len(emitter.buffer) < 2 * EmitterBufferSize
                                 /\ ~(Range(f.batch) \subseteq Range(buffer))
                              THEN @ \cup Range(f.batch) ELSE @]
    /\ UNCHANGED <<retrieval_vars, rank_vars, core_vars, late_but_emitter>>

\* lines 225-235 and 86-90: the periodic task is cancelled; a flush it is
\* in the middle of is cancelled with it, its batch neither written nor put
\* back; then come the final flushes
Shutdown ==
    /\ ~emitter.stopped
    /\ LET cancelled == {f \in emitter.flights : f.by = "periodic"}
       IN  emitter' =
             TakeBatch([emitter EXCEPT
                          !.stopped = TRUE,
                          !.flights = @ \ cancelled,
                          !.dropped = @ \cup UNION {Range(f.batch) : f \in cancelled}],
                       "shutdown")
    /\ UNCHANGED <<retrieval_vars, rank_vars, core_vars, late_but_emitter>>

EmitterNext ==
    \/ Emit
    \/ SizeFlush
    \/ PeriodicFlush
    \/ \E ok \in SUBSET Backends : WriteDone(ok)
    \/ Shutdown

EmitterSpec == EmitterInit /\ [][EmitterNext]_vars

\* ========================================= GraphSearch.get_entity_graph

\* largest depth asked for
MaxDepth == 2

\* the entities of the user, and the rows the entity_relations table may
\* hold: five of the user's own, and one of another user between two of the
\* user's entities
GraphEntities == 1..4

RelationRows ==
    [r1 |-> [source_entity_id |-> 1, target_entity_id |-> 2, user_id |-> "A"],
     r2 |-> [source_entity_id |-> 2, target_entity_id |-> 3, user_id |-> "A"],
     r3 |-> [source_entity_id |-> 3, target_entity_id |-> 1, user_id |-> "A"],
     r4 |-> [source_entity_id |-> 3, target_entity_id |-> 4, user_id |-> "A"],
     r5 |-> [source_entity_id |-> 4, target_entity_id |-> 2, user_id |-> "A"],
     r6 |-> [source_entity_id |-> 1, target_entity_id |-> 4, user_id |-> "B"]]

late_but_traversal ==
    <<searches, cache_log, truncation, split, rerank, query_types, collector,
      span_tasks, emitter>>

\* get_entity_graph("A", center, depth) is called on a table of relations;
\* stack holds the _traverse_graph calls under way, innermost last, each with
\* the relations its loop has still to take
GraphInit ==
    /\ RetrievalIdle /\ RankIdle /\ BuildIdle /\ ChatIdle /\ AnalyzerIdle
    /\ CounterIdle
    /\ \E rows \in SUBSET {"r1", "r2", "r3", "r4", "r5"} :
       \E center \in {1, 2} :
       \E depth \in 0..MaxDepth :
          traversal = [pc |-> "called", user_id |-> "A",
                       table |-> rows \cup {"r6"},
                       entity_id |-> center, depth |-> depth, stack |-> <<>>,
                       visited_entities |-> {}, visited_relations |-> {},
                       entities |-> <<>>, relations |-> <<>>]
    /\ searches = Idle
    /\ cache_log = Idle
    /\ truncation = Idle
    /\ split = Idle
    /\ rerank = Idle
    /\ query_types = <<>>
    /\ collector = Idle
    /\ span_tasks = Idle
    /\ emitter = Idle

\* lines 384-410: the user's relations with the entity at either end
get_entity_relations(tr, entity) ==
    {r \in tr.table :
        /\ RelationRows[r].user_id = tr.user_id
        /\ entity \in {RelationRows[r].source_entity_id,
                       RelationRows[r].target_entity_id}}

\* line 439: the call goes on for an entity within depth not visited before
Enters(tr, entity, current_depth) ==
    current_depth <= tr.depth /\ entity \notin tr.visited_entities

\* lines 439-459: _traverse_graph is called for entity at current_depth;
\* it returns at once, or marks the entity, adds it to the result and
\* fetches its relations
traverse_graph(tr, entity, current_depth) ==
    IF ~Enters(tr, entity, current_depth) THEN tr
    ELSE [tr EXCEPT
            !.visited_entities = @ \cup {entity},
            !.entities = Append(@, entity),
            !.stack = Append(@, [entity_id |-> entity,
                                 current_depth |-> current_depth,
                                 todo |-> get_entity_relations(tr, entity)])]

\* lines 89-98
GraphCall ==
    /\ traversal.pc = "called"
    /\ traversal' = traverse_graph([traversal EXCEPT !.pc = "traversing"],
                                   traversal.entity_id, 0)
    /\ UNCHANGED <<retrieval_vars, rank_vars, core_vars, late_but_traversal>>

\* lines 461-483: the loop of the innermost call takes its next relation,
\* whichever the table returned next; a relation not seen before is added
\* and followed to its other end
GraphStep ==
    /\ traversal.pc = "traversing"
    /\ traversal.stack # <<>>
    /\ LET top   == Len(traversal.stack)
           frame == traversal.stack[top]
       IN  \E rel \in frame.todo :
             LET taken == [traversal EXCEPT !.stack[top].todo = @ \ {rel}]
                 next_id ==
                   IF RelationRows[rel].source_entity_id = frame.entity_id
                     THEN RelationRows[rel].target_entity_id
                     ELSE RelationRows[rel].source_entity_id
             IN  traversal' =
                   IF rel \in traversal.visited_relations THEN taken
                   ELSE traverse_graph(
                          [taken EXCEPT !.visited_relations = @ \cup {rel},
                                        !.relations = Append(@, rel)],
                          next_id, frame.current_depth + 1)
    /\ UNCHANGED <<retrieval_vars, rank_vars, core_vars, late_but_traversal>>

\* the loop of the innermost call is over and the call returns; the
\* outermost call returns to get_entity_graph, lines 100-105
GraphReturn ==
    /\ traversal.pc = "traversing"
    /\ traversal.stack # <<>>
    /\ traversal.stack[Len(traversal.stack)].todo = {}
    /\ traversal' = [traversal EXCEPT
                       !.stack = SubSeq(@, 1, Len(@) - 1),
                       !.pc = IF Len(traversal.stack) = 1 THEN "returned" ELSE @]
    /\ UNCHANGED <<retrieval_vars, rank_vars, core_vars, late_but_traversal>>

GraphNext ==
    \/ GraphCall
    \/ GraphStep
    \/ GraphReturn

GraphSpec == GraphInit /\ [][GraphNext]_vars

\* the call runs on once made
GraphLiveSpec == GraphSpec /\ WF_vars(GraphNext)

\* =================================================================== claims
\* the owner filter a store query carries
OwnerFilter(q) == IF q.store = "qdrant" THEN q.must_user_id ELSE q.eq_user_id

\* C1: tenant isolation. No result a strategy returned to gather and no result
\* multi_strategy_retrieve returns refers to a memory of another owner than the
\* one the request is for, and every query a strategy sent to a store carries
\* the owner of the request as its owner filter.
C1_TenantIsolation ==
    /\ \A s \in Strategies : \A i \in 1..Len(results[s]) :
          OwnerOf(results[s][i].memory_id) = user_id
    /\ \A i \in 1..Len(combined_results) :
          OwnerOf(combined_results[i].memory_id) = user_id
    /\ \A q \in issued : OwnerFilter(q) = user_id

\* all five strategies returned memories and the request has returned them
C1_Witness ==
    /\ orch = "returned"
    /\ \A s \in Strategies : status[s] = "returned" /\ results[s] # <<>>
    /\ {q.store : q \in issued} = {"qdrant", "memories", "entities"}
    /\ Len(combined_results) >= 5

\* C2: the call creates all five tasks at once; multi_strategy_retrieve is past
\* its gather only when each of the five has returned or raised; and the step
\* in which one task raises leaves the state of the other four as it was.
C2_GatherWaitsForAll ==
    /\ [][orch = "idle" /\ orch' = "gathering"
            => \A s \in Strategies : status'[s] = "pending"]_vars
    /\ [](orch \in {"returned", "raised"} => \A s \in Strategies : Settled(s))
    /\ [][\A s \in Strategies :
            (status[s] # "raised" /\ status'[s] = "raised")
               => \A t \in Strategies \ {s} :
                     status'[t] = status[t] /\ results'[t] = results[t]]_vars

\* the request returned although a task raised, with results of another task
C2_Witness ==
    /\ orch = "returned"
    /\ \E s \in Strategies : status[s] = "raised"
    /\ \E t \in Strategies : status[t] = "returned" /\ results[t] # <<>>

\* what strategy s adds to the returned list
Contribution(s) == IF status[s] = "returned" THEN results[s] ELSE <<>>

\* C3: multi_strategy_retrieve never ends with an exception, and what it
\* returns is the lists of the strategies that returned one, in the order
\* vector, keyword, entity, profile, recent, each list as the strategy gave it.
C3_ConcatenationOfSuccesses ==
    /\ orch # "raised"
    /\ orch = "returned" =>
          combined_results =
              Contribution("vector") \o Contribution("keyword")
                \o Contribution("entity") \o Contribution("profile")
                \o Contribution("recent")

\* a strategy raised, one failed inside its except clause, and strategies on
\* both sides of the failed ones contributed
C3_Witness ==
    /\ orch = "returned"
    /\ status["keyword"] = "raised"
    /\ \E s \in Strategies : status[s] = "returned" /\ results[s] = <<>>
    /\ results["vector"] # <<>>
    /\ results["recent"] # <<>>
    /\ combined_results = results["vector"] \o results["entity"]
                            \o results["profile"] \o results["recent"]

\* C4: a strategy whose backend never answers is given up after a timeout, so
\* a retrieval that has started always comes to return.
C4_HungBackendStillReturns == (orch = "gathering") ~> (orch = "returned")

\* ---------------------------------------------------------- claims: ranker
\* the results of list that carry memory_id
WithId(list, memory_id) ==
    {list[i] : i \in {j \in 1..Len(list) : list[j].memory_id = memory_id}}

SetMax(S) == CHOOSE x \in S : \A y \in S : y <= x

\* C5: per-axis maximum. After rank(), the record of a memory carries on each
\* of the five axes the score computed from the largest raw value that any
\* input result with that memory_id has on the axis.
C5_PerAxisMaximum ==
    rank_calls >= 1 =>
      \A p \in 1..Len(ranked) :
        LET D == WithId(last_input, ranked[p].memory_id)
        IN  /\ ranked[p].keyword_score =
                 normalize_keyword_score(SetMax({Get(d, "keyword_score", 0) : d \in D}))
            /\ ranked[p].vector_score =
                 normalize_vector_score(SetMax({Get(d, "vector_score", 0) : d \in D}))
            /\ ranked[p].reliability_score =
                 SetMax({Get(d, "reliability", 500) : d \in D})
            /\ ranked[p].recency_score =
                 SetMax({calculate_recency_score(Get(d, "created_at", NoDate)) : d \in D})
            /\ ranked[p].frequency_score =
                 SetMax({calculate_frequency_score(Get(d, "access_count", 0)) : d \in D})

\* the names in S in alphabetical order
SortedNames(S) ==
    CHOOSE q \in [1..Cardinality(S) -> S] :
        \A i, j \in 1..Cardinality(S) : i < j => NameRank[q[i]] < NameRank[q[j]]

\* C6: after rank() on the results of the strategies, the match_type of the
\* record of a memory is the sorted, comma-joined set of the strategies that
\* returned the memory, or the one strategy's name when there is only one.
C6_MatchTypeIsSortedSet ==
    rank_calls = 1 =>
      \A p \in 1..Len(ranked) :
        LET D == WithId(last_input, ranked[p].memory_id)
        IN  ranked[p].match_type = SortedNames({d.match_type[1] : d \in D})

\* C7: the list rank() returns holds every memory_id of its input, each once.
C7_OneRecordPerMemory ==
    rank_calls >= 1 =>
      /\ \A p, q \in 1..Len(ranked) :
            ranked[p].memory_id = ranked[q].memory_id => p = q
      /\ {ranked[p].memory_id : p \in 1..Len(ranked)}
            = {last_input[i].memory_id : i \in 1..Len(last_input)}

\* three results of two memories were ranked into two records
C7_Witness ==
    /\ rank_calls >= 1
    /\ Len(last_input) = 3
    /\ Len(ranked) = 2

IdScores(out) == {<<out[p].rec.memory_id, out[p].rec.score>> : p \in 1..Len(out)}

\* C8: ranking is idempotent on its input. A further rank() call, on the same
\* results or on the returned list, leaves the combined score of every memory
\* as the call before gave it; and a list with one entry repeated gets the
\* scores of the list without the repetition.
C8_RankIdempotent ==
    /\ [][rank_calls >= 1 =>
            \A p \in 1..Len(ranked) : \A q \in 1..Len(ranked') :
               ranked'[q].memory_id = ranked[p].memory_id
                  => ranked'[q].score = ranked[p].score]_vars
    /\ [](rank_calls = 0 =>
            \A i \in 1..Len(items) :
               IdScores(rank(weights, Append(items, items[i])))
                  = IdScores(rank(weights, items)))

WeightSum == weights.keyword + weights.vector + weights.reliability
               + weights.recency + weights.frequency

\* C9: with five weights that sum to 1.0 +/- 0.01, every combined score that
\* rank() gives is within [0, 1].
C9_ScoreInUnitInterval ==
    (rank_calls >= 1 /\ WeightSum >= 990 /\ WeightSum <= 1010) =>
      \A p \in 1..Len(ranked) : ranked[p].score >= 0 /\ ranked[p].score <= 1000

\* index of the first result of list with memory_id
FirstOccurrence(list, memory_id) ==
    CHOOSE i \in 1..Len(list) :
        /\ list[i].memory_id = memory_id
        /\ \A j \in 1..(i - 1) : list[j].memory_id # memory_id

\* C10: the returned list is in order of non-increasing combined score, and
\* records of equal score are in the order in which their memories first
\* occur in the input.
C10_SortedStable ==
    rank_calls >= 1 =>
      \A p, q \in 1..Len(ranked) :
        p < q =>
          /\ ranked[p].score >= ranked[q].score
          /\ ranked[p].score = ranked[q].score =>
                FirstOccurrence(last_input, ranked[p].memory_id)
                   < FirstOccurrence(last_input, ranked[q].memory_id)

\* a list with two records of equal score below a record of higher score
C10_Witness ==
    /\ rank_calls >= 1
    /\ Len(ranked) = 3
    /\ ranked[1].score > ranked[2].score
    /\ ranked[2].score = ranked[3].score

\* -------------------------------------------------- claims: ContextBuilder
\* the section of ctx for category c
SectionOf(ctx, c) ==
    CASE c = "profile"    -> ctx.profile_memories
      [] c = "semantic"   -> ctx.semantic_memories
      [] c = "episodic"   -> ctx.episodic_memories
      [] c = "procedural" -> ctx.procedural_memories

\* token count of the items packed into category c of ctx
PackedTokens(ctx, c) ==
    SumSeq([p \in 1..Len(SectionOf(ctx, c)) |-> count(SectionOf(ctx, c)[p].content)])

\* the budgets of the instance and the limit of the call
BaseBudgets == ContextBuilderInit(builder_args)

Limit == OrDefault(max_tokens_arg, BaseBudgets.max_tokens)

\* the items of the input that belong to category c, in rank order
ItemsOf(c) == SelectSeq(memories, LAMBDA m : Get(m, "memory_type", "semantic") = c)

ItemTokens(m) == count(Get(m, "content", NoText))

\* tokens the first n items of category c ask for
PrefixTokens(c, n) ==
    LET listed == ItemsOf(c)
    IN  SumSeq([i \in 1..n |-> ItemTokens(listed[i])])

\* the budget category c is packed under
BudgetInEffect(c) ==
    IF adaptive
      THEN reallocate_budgets(BaseBudgets,
                              [d \in Range(Categories) |-> PrefixTokens(d, Len(ItemsOf(d)))],
                              Limit)[c]
      ELSE BaseBudgets[c]

\* C11: budget respect. In every context build() returns, of either builder,
\* the token counts of the items packed into a category sum to at most the
\* budget of the category: its base budget, or its raised budget in the
\* adaptive builder.
C11_BudgetRespect ==
    build_calls >= 1 =>
      \A c \in Range(Categories) : PackedTokens(context, c) <= BudgetInEffect(c)

\* the adaptive builder packed more episodic tokens than the base budget
C11_Witness ==
    /\ build_calls >= 1
    /\ adaptive
    /\ PackedTokens(context, "episodic") > BaseBudgets.episodic

\* length of the longest prefix of category c that fits its budget
LongestPrefix(c) ==
    LET budget == BudgetInEffect(c)
        asked  == [n \in 0..Len(ItemsOf(c)) |-> PrefixTokens(c, n)]
    IN  CHOOSE n \in DOMAIN asked :
            /\ asked[n] <= budget
            /\ \A k \in DOMAIN asked : k > n => asked[k] > budget

\* C12: strict prefix-greedy packing. The items packed into a category are
\* the longest prefix, in rank order, of the category's items whose token
\* counts sum to at most the budget; nothing after the first rejected item is
\* packed.
C12_PrefixGreedy ==
    build_calls >= 1 =>
      \A c \in Range(Categories) :
        LET section == SectionOf(context, c)
            listed  == ItemsOf(c)
        IN  /\ Len(section) = LongestPrefix(c)
            /\ \A p \in 1..Len(section) :
                  /\ section[p].id = listed[p].memory_id
                  /\ section[p].content = listed[p].content

\* an item was rejected and a later item of the category, which would have
\* fitted in what was left of the budget, is not packed
C12_Witness ==
    /\ build_calls >= 1
    /\ \E c \in Range(Categories) :
          LET n == Len(SectionOf(context, c))
          IN  /\ n + 2 <= Len(ItemsOf(c))
              /\ \E j \in (n + 2)..Len(ItemsOf(c)) :
                    PrefixTokens(c, n) + ItemTokens(ItemsOf(c)[j]) <= BudgetInEffect(c)

\* tokens of everything packed into ctx: the four sections and the entity
\* context
RawSum(ctx) ==
    PackedTokens(ctx, "profile") + PackedTokens(ctx, "semantic")
      + PackedTokens(ctx, "episodic") + PackedTokens(ctx, "procedural")
      + count(ctx.entity_context)

\* C13: for both builders total_tokens = min(S, max_tokens), S the tokens of
\* all packed sections, so total_tokens never exceeds max_tokens (the one
\* passed to build() included), and truncated = (S > max_tokens).
C13_TotalCapped ==
    build_calls >= 1 =>
      /\ context.total_tokens = Min(RawSum(context), Limit)
      /\ context.total_tokens <= Limit
      /\ context.truncated = (RawSum(context) > Limit)

\* tokens the categorized items of the input ask for
Demand ==
    PrefixTokens("profile", Len(ItemsOf("profile")))
      + PrefixTokens("semantic", Len(ItemsOf("semantic")))
      + PrefixTokens("episodic", Len(ItemsOf("episodic")))
      + PrefixTokens("procedural", Len(ItemsOf("procedural")))

C15_FullProceduralToEpisodic ==
    (/\ build_calls >= 1
     /\ adaptive
     /\ ItemsOf("procedural") = <<>>
     /\ PrefixTokens("episodic", Len(ItemsOf("episodic"))) > BaseBudgets.episodic)
      => BudgetInEffect("episodic") >= BaseBudgets.episodic + BaseBudgets.procedural

\* budget the four categories below their base leave unused
UnusedTotal ==
    SumSeq([i \in 1..Len(Categories) |->
              Max(0, BaseBudgets[Categories[i]]
                       - PrefixTokens(Categories[i], Len(ItemsOf(Categories[i]))))])

\* the categories that ask for more than their base
Overflowing ==
    {c \in Range(Categories) : PrefixTokens(c, Len(ItemsOf(c))) > BaseBudgets[c]}

\* C15 amended: in that case the episodic budget is raised by the unused
\* budget of all categories below their base (the whole procedural base
\* included) divided, rounding down, by the number of categories that ask for
\* more than their base; that is at least the whole procedural base when
\* episodic is the only such category.
C15_UnusedSplitEvenly ==
    (/\ build_calls >= 1
     /\ adaptive
     /\ ItemsOf("procedural") = <<>>
     /\ PrefixTokens("episodic", Len(ItemsOf("episodic"))) > BaseBudgets.episodic)
      => /\ BudgetInEffect("episodic")
              = BaseBudgets.episodic + UnusedTotal \div Cardinality(Overflowing)
         /\ Overflowing = {"episodic"}
              => BudgetInEffect("episodic")
                   >= BaseBudgets.episodic + BaseBudgets.procedural

\* nothing procedural, episodic and semantic both over their base: episodic
\* is raised by less than the procedural base
C15_Witness ==
    /\ build_calls >= 1
    /\ adaptive
    /\ ItemsOf("procedural") = <<>>
    /\ Overflowing = {"episodic", "semantic"}
    /\ BudgetInEffect("episodic") > BaseBudgets.episodic
    /\ BudgetInEffect("episodic") < BaseBudgets.episodic + BaseBudgets.procedural

\* ctx without the created_at stamps of its items
Unstamped(ctx) ==
    [c \in Range(Categories) |->
        [p \in 1..Len(SectionOf(ctx, c)) |->
            [k \in DOMAIN SectionOf(ctx, c)[p] \ {"created_at"} |->
                SectionOf(ctx, c)[p][k]]]]

\* C16: two build() calls with the same ranked input and the same budgets
\* return equal contexts: the same packed items in the same order with the
\* same field values (the time of creation set aside), the same total_tokens
\* and the same truncated flag, episodic items without a conversation
\* reference included.
C16_BuildDeterministic ==
    build_calls >= 2 =>
      /\ Unstamped(context) = Unstamped(prev_context)
      /\ context.entity_context = prev_context.entity_context
      /\ context.total_tokens = prev_context.total_tokens
      /\ context.truncated = prev_context.truncated

\* ----------------------------------------------------- claims: ChatService
\* C17: total retrieval failure is not an error. When every strategy failed
\* or found nothing, _retrieve_memories raises nothing, the ranked list is
\* empty and the caller receives a MemoryContext whose four sections are
\* empty, with truncated false.
C17_EmptyContextOnTotalFailure ==
    (chat # "idle" /\ combined_results = <<>>) =>
      /\ ranked = <<>>
      /\ chat = "context"
      /\ context.returned
      /\ \A c \in Range(Categories) : SectionOf(context, c) = <<>>
      /\ ~context.truncated

\* --------------------------------------------------- claims: QueryAnalyzer
\* the query as _detect_intent sees it
QueryLower == Strip(Lower(query))

\* C18: intent detection tests the groups in the order recall, command,
\* question and the first group with a match decides; a query matching none,
\* the empty and the whitespace-only query included, is conversation.
C18_FirstMatchWins ==
    query_analysis.returned =>
      /\ MatchesRecall(QueryLower) => query_analysis.intent = "recall"
      /\ (MatchesCommand(QueryLower) /\ ~MatchesRecall(QueryLower))
            => query_analysis.intent = "command"
      /\ (MatchesQuestion(QueryLower) /\ ~MatchesCommand(QueryLower)
            /\ ~MatchesRecall(QueryLower))
            => query_analysis.intent = "question"
      /\ (~MatchesQuestion(QueryLower) /\ ~MatchesCommand(QueryLower)
            /\ ~MatchesRecall(QueryLower))
            => query_analysis.intent = "conversation"

\* a query that matches a command and a question pattern and no recall
\* pattern has been classified command
C18_Witness ==
    /\ query_analysis.returned
    /\ MatchesCommand(QueryLower)
    /\ MatchesQuestion(QueryLower)
    /\ ~MatchesRecall(QueryLower)
    /\ query_analysis.intent = "command"

\* C19: whenever analyze() says requires_memory, memory_types_needed is not
\* empty, and neither are the types RetrievalService._determine_memory_types
\* makes of the analysis.
C19_MemoryTypesNonEmpty ==
    (query_analysis.returned /\ query_analysis.requires_memory) =>
      /\ query_analysis.memory_types_needed # <<>>
      /\ determine_memory_types(query_analysis) # <<>>

\* a command that needs memory only for its personal hint
C19_Witness ==
    /\ query_analysis.returned
    /\ query_analysis.requires_memory
    /\ query_analysis.intent = "command"
    /\ query_analysis.memory_types_needed = <<"procedural", "profile">>
    /\ determine_memory_types(query_analysis) = <<"procedural", "profile">>

\* ---------------------------------------------------- claims: TokenCounter
\* C20: truncate_to_tokens fits the limit. For every text and every
\* max_tokens >= 0, with or without ellipsis, the result is the text
\* unchanged when count(text) <= max_tokens, and otherwise a text whose
\* count, ellipsis included, is at most max_tokens.
C20_TruncationFits ==
    truncated_text.returned =>
      IF TokenCounter_count(text) <= max_tokens
        THEN truncated_text.text = text
        ELSE TokenCounter_count(truncated_text.text) <= max_tokens

\* ------------------------------------------------- claims: embedding cache

\* C21: whatever the interleaving of concurrent search() calls, the cache
\* never holds more than cache_max_size entries, and the entry an overflow
\* evicts is the one that was inserted earliest.
C21_BoundedFifo ==
    /\ Len(embedding_cache) <= cache_max_size
    /\ cache_log.evicted.key = cache_log.evicted.earliest

\* two searches missed and were suspended together; one of them has stored
\* its embedding into the full cache and evicted a key, the other stored too
C21_Witness ==
    /\ searches # Idle
    /\ \A t \in SearchTasks : searches[t].pc = "stored"
    /\ searches[1].cache_key # searches[2].cache_key
    /\ cache_log.evicted.key = 2
    /\ Len(embedding_cache) = cache_max_size

\* ------------------------------------- claims: _truncate_to_tokens

\* what _truncate_to_tokens has returned
Truncated == truncation.pc \in {"returned", "cut"}

\* C22: the text the truncation step returns, ellipsis included, counts at
\* most the budget it was given, and a text that already fits comes back
\* unchanged.
C22_EntityWithinBudget ==
    Truncated =>
       /\ count(truncation.result) <= truncation.max_tokens
       /\ count(truncation.text) <= truncation.max_tokens
            => truncation.result = truncation.text

\* C23: the binary search ends for every text and every max_tokens, and the
\* number of words it keeps is the largest k for which the first k words,
\* joined by single spaces, count at most max_tokens.
C23_SearchEndsAtLargestFit ==
    /\ <>Truncated
    /\ [](truncation.pc = "cut" =>
            /\ truncation.result = AddEllipsis(Take(truncation.text, truncation.low))
            /\ count(Take(truncation.text, truncation.low)) <= truncation.max_tokens
            /\ \A k \in (truncation.low + 1)..Len(truncation.text) :
                  count(Take(truncation.text, k)) > truncation.max_tokens)

\* a search over three words that kept one of them: the second did not fit
C23_Witness ==
    /\ truncation.pc = "cut"
    /\ Len(truncation.text) >= 3
    /\ truncation.low = 1
    /\ truncation.result =
         ContextBuilder_truncate_to_tokens(truncation.text, truncation.max_tokens)

\* ---------------------------------------------- claims: split_by_tokens

\* C24: for a non-empty text, chunk_size >= 1 and 0 <= overlap < chunk_size
\* the call returns; every chunk of the list it returns has at most
\* chunk_size tokens, and each chunk begins with the last overlap tokens of
\* the chunk before it.
C24_SplitReturns ==
    /\ <>(split.pc = "returned")
    /\ [](split.pc = "returned" =>
            /\ \A i \in 1..Len(split.chunks) :
                  split.chunks[i].end - split.chunks[i].start <= split.chunk_size
            /\ \A i \in 1..(Len(split.chunks) - 1) :
                  split.chunks[i].end - split.chunks[i + 1].start = split.overlap)

\* ------------------------------------------ claims: rerank_with_context

\* the dict of the list passed in that the returned dict d is
PassedAs(d) == rerank.passed[d.id]

OldScore(d) == Get(PassedAs(d), "score", 0)

RecallPreset ==
    [keyword |-> 400, recency |-> 250, vector |-> 150, reliability |-> 150,
     frequency |-> 50]

QuestionPreset ==
    [vector |-> 350, reliability |-> 300, keyword |-> 200, recency |-> 100,
     frequency |-> 50]

ConversationPreset ==
    [keyword |-> 300, vector |-> 250, reliability |-> 200, recency |-> 200,
     frequency |-> 50]

\* the query type of the last rank_for_query_type call
LastQueryType == query_types[Len(query_types)]

\* C26: after any sequence of rank_for_query_type calls the five weights are
\* one whole preset, the one of the last call's query type, and sum to 1.0;
\* they stay in effect for the rank() calls that follow; a query type that
\* is not recognised brings back the configured defaults, whatever weights
\* the ranker was constructed with.
C26_WholePreset ==
    query_types # <<>> =>
       /\ weights \in {RecallPreset, QuestionPreset, ConversationPreset, DefaultWeights}
       /\ WeightSum = 1000
       /\ weights = CASE LastQueryType = "recall" -> RecallPreset
                      [] LastQueryType = "question" -> QuestionPreset
                      [] LastQueryType = "conversation" -> ConversationPreset
                      [] OTHER -> DefaultWeights
       /\ LET out == rank(weights, last_input)
          IN  ranked = [p \in 1..Len(out) |-> out[p].rec]

\* a ranker was asked for "recall" and then for a type without a preset:
\* the configured defaults are in effect and the list was ranked by them
C26_Witness ==
    /\ query_types = <<"recall", "command">>
    /\ rank_calls = 2
    /\ weights = DefaultWeights
    /\ ranked # <<>>

\* ------------------------------------------ claims: adaptive reallocation

\* the budgets the adaptive builder packs under
Adapted ==
    reallocate_budgets(BaseBudgets,
                       [d \in Range(Categories) |-> PrefixTokens(d, Len(ItemsOf(d)))],
                       Limit)

\* C27: in the adaptive builder no budget is adapted below its base; a
\* category that asks for at most its base budget is packed in full; the
\* tokens packed into the four categories together are at most the sum of the
\* four base budgets; the entity budget is neither raised nor given away.
C27_ReallocationConserves ==
    (build_calls >= 1 /\ adaptive) =>
      LET given == Adapted
      IN  /\ \A c \in Range(Categories) :
                /\ given[c] >= BaseBudgets[c]
                /\ PrefixTokens(c, Len(ItemsOf(c))) <= BaseBudgets[c]
                     => Len(SectionOf(context, c)) = Len(ItemsOf(c))
          /\ PackedTokens(context, "profile") + PackedTokens(context, "semantic")
               + PackedTokens(context, "episodic") + PackedTokens(context, "procedural")
               <= BaseBudgets.profile + BaseBudgets.semantic
                    + BaseBudgets.episodic + BaseBudgets.procedural
          /\ given.entity = BaseBudgets.entity

\* one category asks for more than its base and, raised, holds more than its
\* base; another has items that ask for less than its base, gave the rest
\* away and is packed in full
C27_Witness ==
    /\ build_calls >= 1
    /\ adaptive
    /\ \E c \in Range(Categories) :
          /\ ItemsOf(c) # <<>>
          /\ PrefixTokens(c, Len(ItemsOf(c))) < BaseBudgets[c]
          /\ Len(SectionOf(context, c)) = Len(ItemsOf(c))
    /\ \E c \in Overflowing : PackedTokens(context, c) > BaseBudgets[c]

\* ------------------------------------------------- claims: span tracking

\* C28: with concurrent tasks sharing the collector, each inside track_span,
\* the end_span or fail_span a task runs on leaving a track_span block
\* closes the span that block started; after finalize() the span stack is
\* empty and no span is running.
C28_SpansAsyncSafe ==
    /\ \A i \in 1..Len(collector.spans) :
          collector.spans[i].ended_by # 0 =>
             /\ collector.spans[i].ended_for = i
             /\ collector.spans[i].ended_by = collector.spans[i].started_by
    /\ collector.finalized =>
          /\ collector.span_stack = <<>>
          /\ \A i \in 1..Len(collector.spans) : collector.spans[i].status # "running"

\* ---------------------------------------------- claims: analytics emitter

\* no _flush is waiting to run or holds a batch
EmitterQuiet == emitter.pending = 0 /\ emitter.flights = {}

\* C29: every record emitted is, once the flushes under way have ended,
\* written by a backend or still in the buffer; a batch whose write failed
\* is put back while the buffer holds fewer than 2 x buffer_size records;
\* no record is delivered in two batches.
C29_NoRecordLost ==
    /\ EmitterQuiet =>
          \A r \in 1..emitter.emitted :
             emitter.wrote[r] # {} \/ r \in Range(emitter.buffer)
    /\ emitter.dropped = {}
    /\ \A r \in Records : emitter.batches[r] <= 1

\* ------------------------------------------------- claims: entity graph

\* the entities within n hops of the center over the user's relations
RECURSIVE Within(_)
Within(n) ==
    IF n = 0 THEN {traversal.entity_id}
    ELSE LET near == Within(n - 1)
         IN  near \cup {e \in GraphEntities :
                           \E m \in near : get_entity_relations(traversal, m)
                                             \cap get_entity_relations(traversal, e) # {}
                                           /\ e # m}

\* C30: get_entity_graph returns on every graph, cyclic ones included, and
\* the entities it returns are exactly the user's entities at most depth
\* relation hops from the center, in whatever order the relations come.
C30_ExactNeighbourhood ==
    /\ <>(traversal.pc = "returned")
    /\ [](traversal.pc = "returned" =>
             Range(traversal.entities) = Within(traversal.depth))

====
